---- MODULE Spec2Model ----
(***************************************************************************)
(* Verification model of the IPTV player core: the EPG cache manager       *)
(* (hooks useEPG / useChannelEPG over the process-wide epgCache) and the   *)
(* content deduplicator with its metadata extractor.                       *)
(*                                                                         *)
(* Time is counted in minutes: CACHE_DURATION = 5 * 60 * 1000 ms = 5.      *)
(* The two loop strides of the EPG fetcher (5 per micro-batch in           *)
(* fetchEpgBatch, 50 per chunk in loadAll) are scaled down to batchSize    *)
(* and chunkSize so that several micro-batches and several chunks occur    *)
(* with a handful of channels; every formula is stated against the names,  *)
(* never against the numbers.                                              *)
(***************************************************************************)
EXTENDS Integers, Sequences, FiniteSets, TLC

(***************************************************************************)
(* Bounds of the exploration.                                              *)
(***************************************************************************)
NumLive == 3
MaxTime == 6
MaxPasses == 2
MaxEnv == 3
MaxChRequests == 2
\* the micro-batch of fetchEpgBatch (5 in the source) and the chunk of loadAll
\* (50 in the source), scaled down together: a chunk still holds more than one
\* micro-batch and a list more than one chunk
batchSize == 2
chunkSize == 3
\* longest list of records handed to the deduplicator
MaxRecords == 3
\* most variants of a content handed to selectBestVariant
MaxVariants == 3
\* most lines of a playlist handed to parseM3U
MaxLines == 4
\* most streams in a stream list of the server
MaxStreams == 2
\* most submissions of the Xtream form
MaxSubmits == 2
\* most tags behind the title of a name handed to parseContentMetadata
MaxTags == 2
\* most calls of OMDBClient.getAwards and of the searches of TMDBClient
MaxCalls == 10
\* most episodes of a season, and the seasons of a series, in a response
MaxEpisodes == 2
MaxSeasons == 2

(***************************************************************************)
(* Program constants (minutes).                                            *)
(***************************************************************************)
CACHE_DURATION == 5
REFRESH_INTERVAL == 5
CHANNEL_INTERVAL == 1

VARIABLES
    now,            \* Date.now(), in minutes
    envn,           \* number of renders / user actions so far (bounded by MaxEnv)
    epgCache,       \* module-level Map: stream id -> [programs, fetchedAt]
    \* ---- useEPG ----
    channels,       \* the `channels` argument (a list of channel ids)
    epgData,        \* useState Map: channel id -> programs (consumer-visible)
    isLoading,      \* useState flag
    fetchedRef,     \* useRef Set of channel ids already fetched
    isFetchingRef,  \* useRef guard flag
    channelIdsRef,  \* useRef key of the live ids of the last accepted effect run
    passes,         \* the loadAll() runs in flight, one per slot
    timerDue,       \* time at which the periodic refresh callback fires next
    refreshed,      \* "no" / "busy" / "quiet": a refresh happened since the last
                    \* pass start, with / without a pass in flight at that time
    mounted,        \* the component that calls useEPG is mounted
    enabled,        \* the `enabled` argument is true and `api` is not null
    timers,         \* the intervals of the periodic refresh effect that are set:
                    \* when each fires next, and the `channels` of its closure
    \* ---- useChannelEPG ----
    chChannel,      \* the `channel` argument (0 = null)
    currentProgram, \* useState
    nextProgram,    \* useState
    shownFor,       \* history: the channel of the fetchEpg closure that set the
                    \* two programs last (0 = the effect set them to null, or
                    \* nothing has set them)
    chLoading,      \* useState isLoading
    chRequests,     \* channels of the get_short_epg requests in flight
    chTimerDue,     \* time at which setInterval(fetchEpg) fires next, -1 = none
    \* ---- the pure functions: deduplicator, variant selection ----
    input,          \* the value at hand: a list of Channel records, a content
    call,           \* the function called last ("none" at first)
    args,           \* what was passed to that call besides, or instead of, input
    result,         \* the value it returned
    \* ---- SettingsContent (the add-playlist forms) and its XtreamAPI client ----
    playlistTab,    \* useState 'm3u' | 'xtream': the form that is shown
    msg,            \* useState { ok, text } | null
    loading,        \* useState flag
    playlists,      \* the playlists handed to onAddPlaylist, in order
    handler,        \* handleXtream: where it is, and how often it was submitted
    authInfo,       \* XtreamAPI.authInfo of the client at work
    issued,         \* the requests sent to the server so far, in order
    load,           \* loadFullPlaylist: where it is, its options, its locals and
                    \* the classes it has warned about
    series,         \* getSeriesInfo: where it is, its timer and what it resolved to
    \* ---- OMDBClient ----
    awardsCache,    \* module-level Map: key -> awards | null ("absent": no entry)
    queue,          \* OMDBClient.queue: the tasks that wait, each with the number
                    \* of the getAwards call it belongs to and its key
    active,         \* OMDBClient.active
    omdbRunning,    \* per key, the tasks that wait for their response
    lookupCalls,    \* number of getAwards and search calls so far (bounded by
                    \* MaxCalls)
    omdbFetches,    \* history: per key, the fetch(url) calls of run() so far
    \* ---- TMDBClient ----
    searchCache,    \* module-level Map: key -> tmdbId | null ("absent": no entry)
    tmdbRunning,    \* per key, the searches that wait for their response
    tmdbFetches,    \* history: per key, the fetch(url) calls of the searches so far
    \* ---- App (onboarding) ----
    appPlaylists,   \* useStorage 'iptv_playlists': the stored playlists, in order
    userPreferences,\* usePreferences: onboardingCompleted and whether the
                    \* choices of the onboarding are stored
    showOnboarding, \* useState
    pendingPlaylist,\* useState: <<>> for null, else <<playlist>>
    appLoading,     \* useState isLoading of App
    timeouts,       \* the setTimeout callbacks that have not run yet
    imported        \* history: the playlists handed to handleAddPlaylist

epgVars == <<channels, epgData, isLoading, fetchedRef, isFetchingRef,
             channelIdsRef, passes, timerDue, refreshed>>

chVars == <<chChannel, currentProgram, nextProgram, shownFor, chLoading, chRequests,
            chTimerDue>>

dedupVars == <<input, call, args, result>>

settingsVars == <<playlistTab, msg, loading, playlists, handler>>

xtreamVars == <<authInfo, issued, load, series>>

lifeVars == <<mounted, enabled, timers>>

omdbVars == <<awardsCache, queue, active, omdbRunning, omdbFetches>>

tmdbVars == <<searchCache, tmdbRunning, tmdbFetches>>

lookupVars == <<lookupCalls, omdbVars, tmdbVars>>

appVars == <<appPlaylists, userPreferences, showOnboarding, pendingPlaylist, appLoading,
             timeouts, imported>>

vars == <<now, envn, epgCache, epgVars, chVars, dedupVars, settingsVars, xtreamVars, lifeVars, lookupVars, appVars>>

----------------------------------------------------------------------------
(***************************************************************************)
(* Helpers.                                                                *)
(***************************************************************************)
Min(a, b) == IF a < b THEN a ELSE b

Range(s) == {s[x] : x \in DOMAIN s}

EmptyMap == <<>>

\* Map.set
Put(m, k, v) == [x \in (DOMAIN m) \cup {k} |-> IF x = k THEN v ELSE m[x]]

\* Map.set of every entry of upd
Merge(m, upd) ==
    [x \in (DOMAIN m) \cup (DOMAIN upd) |-> IF x \in DOMAIN upd THEN upd[x] ELSE m[x]]

\* Array.prototype.filter, keeping the elements of `keep`
RECURSIVE SelectSeqBy(_, _)
SelectSeqBy(s, keep) ==
    IF s = <<>> THEN <<>>
    ELSE IF Head(s) \in keep THEN <<Head(s)>> \o SelectSeqBy(Tail(s), keep)
         ELSE SelectSeqBy(Tail(s), keep)

\* the sequence without its k-th element
RemoveAt(s, k) == SubSeq(s, 1, k - 1) \o SubSeq(s, k + 1, Len(s))

----------------------------------------------------------------------------
(***************************************************************************)
(* Channels.  Ids 1..NumLive are the live channels of an Xtream account    *)
(* ("xtream-live-<k>"); M3uChan is a live channel whose id does not have   *)
(* that form; VodChan is not live.                                         *)
(***************************************************************************)
M3uChan == NumLive + 1
VodChan == NumLive + 2

XtreamLive == 1..NumLive

IsLive(c) == c \in XtreamLive \cup {M3uChan}

\* channel.id.match(/xtream-live-(\d+)/): the stream id, 0 when no match
StreamId(c) == IF c \in XtreamLive THEN c ELSE 0

ListAll == <<VodChan>> \o [k \in 1..NumLive |-> k] \o <<M3uChan>>
ListHead == <<1, 2>>
ListOne == <<1>>

\* the values the `channels` argument takes
ChannelLists == {ListAll, ListHead}

\* channels.filter(ch => ch.isLive).map(ch => ch.id).sort().join(',')
CurrentIds(list) == {c \in Range(list) : IsLive(c)}

(***************************************************************************)
(* EPG programs: [start, end] timestamps.  NoProg stands for null.         *)
(***************************************************************************)
Prog(s, e) == [startTimestamp |-> s, endTimestamp |-> e]

NoProg == Prog(-1, -1)

\* a listing answered by the server (limit=3)
ListingA == <<Prog(0, 2), Prog(2, 5), Prog(6, 8)>>

Listings == {ListingA}

\* outcomes of one get_short_epg request
Outcomes == {"ok", "noListings", "httpError", "networkError", "malformed"}
FailOutcomes == {"httpError", "networkError", "malformed"}

\* XtreamAPI.getShortEpg: the resolved value for a request outcome
getShortEpg(outcome, listing) ==
    IF outcome = "ok" THEN listing ELSE <<>>

\* variant: the scan takes the interval as half-open, start <= t < end
RECURSIVE FindCurrentHalfOpen(_, _)
FindCurrentHalfOpen(programs, t) ==
    IF programs = <<>> THEN NoProg
    ELSE IF t >= Head(programs).startTimestamp /\ t < Head(programs).endTimestamp
         THEN Head(programs)
         ELSE FindCurrentHalfOpen(Tail(programs), t)

\* programs.find(p => now >= p.startTimestamp && now <= p.endTimestamp) || null
RECURSIVE FindCurrent(_, _)
FindCurrent(programs, t) ==
    IF programs = <<>> THEN NoProg
    ELSE IF t >= Head(programs).startTimestamp /\ t <= Head(programs).endTimestamp
         THEN Head(programs)
         ELSE FindCurrent(Tail(programs), t)

\* programs.find(p => p.startTimestamp > now) || null
RECURSIVE FindNext(_, _)
FindNext(programs, t) ==
    IF programs = <<>> THEN NoProg
    ELSE IF Head(programs).startTimestamp > t THEN Head(programs)
         ELSE FindNext(Tail(programs), t)

\* useEPG.getCurrentProgram
getCurrentProgram(channelId) ==
    IF channelId \notin DOMAIN epgData \/ Len(epgData[channelId]) = 0 THEN NoProg
    ELSE FindCurrent(epgData[channelId], now)

\* useEPG.getNextProgram
getNextProgram(channelId) ==
    IF channelId \notin DOMAIN epgData \/ Len(epgData[channelId]) = 0 THEN NoProg
    ELSE FindNext(epgData[channelId], now)

----------------------------------------------------------------------------
(***************************************************************************)
(* The cache test of fetchEpgForChannel and of useChannelEPG.fetchEpg.     *)
(***************************************************************************)
\* variant: an entry aged exactly CACHE_DURATION still counts as fresh
CacheFreshInclusive(cache, k, t) ==
    /\ k \in DOMAIN cache
    /\ t - cache[k].fetchedAt <= CACHE_DURATION

CacheFresh(cache, k, t) ==
    /\ k \in DOMAIN cache
    /\ t - cache[k].fetchedAt < CACHE_DURATION

\* fetchEpgForChannel up to its await: "null" (no request, no result),
\* "hit" (cached programs) or "miss" (a get_short_epg request is issued)
LookupKind(cache, c, t) ==
    IF ~IsLive(c) \/ StreamId(c) = 0 THEN "null"
    ELSE IF CacheFresh(cache, StreamId(c), t) THEN "hit"
    ELSE "miss"

(***************************************************************************)
(* One loadAll() run.                                                      *)
(*   ids    : the key of live ids of the effect run that started it        *)
(*   list   : liveChannels, the channels the pass has to fetch             *)
(*   i, j   : offset of the chunk in list, of the micro-batch in the chunk *)
(*   pending: channels of the micro-batch whose request is in flight       *)
(*   results: resolved results of the micro-batch (Promise.all)            *)
(*   allResults: accumulated results of the chunk                          *)
(*   origin : value of `refreshed` when the pass started                   *)
(*   alone  : started after a quiet refresh, no other pass in flight since *)
(*   hits   : channels the pass served from the cache                      *)
(***************************************************************************)
Idle == [pc |-> "idle", ids |-> {}, list |-> <<>>, i |-> 0, j |-> 0,
         pending |-> {}, results |-> EmptyMap, allResults |-> EmptyMap,
         origin |-> "no", alone |-> FALSE, hits |-> {}]

Slots == 1..MaxPasses

Active(ps) == ps.pc # "idle"

InFlight == {p \in Slots : Active(passes[p])}

Chunk(ps) == SubSeq(ps.list, ps.i + 1, Min(ps.i + chunkSize, Len(ps.list)))

\* variant: a micro-batch one channel wider than batchSize
MicroWide(ps) == SubSeq(Chunk(ps), ps.j + 1, Min(ps.j + batchSize + 1, Len(Chunk(ps))))

Micro(ps) == SubSeq(Chunk(ps), ps.j + 1, Min(ps.j + batchSize, Len(Chunk(ps))))

\* The part of the state a pass works on
HookState == [cache |-> epgCache, data |-> epgData, loading |-> isLoading,
              fetched |-> fetchedRef, fetching |-> isFetchingRef, passes |-> passes]

RECURSIVE StartMicro(_, _), CompleteMicro(_, _)

\* loadAll after `await fetchEpgBatch(batch)`: pause before the next chunk,
\* or end of the pass
AfterChunk(S, p) ==
    LET ps == S.passes[p] IN
    IF ps.i + chunkSize < Len(ps.list)
    THEN [S EXCEPT !.passes[p] = [ps EXCEPT !.pc = "pause"]]
    ELSE [S EXCEPT !.fetching = FALSE, !.passes[p] = Idle]

\* fetchEpgBatch after its loop: the single setEpgData, setIsLoading(false)
CompleteChunk(S, p) ==
    LET ps == S.passes[p]
        S1 == [S EXCEPT !.data = IF DOMAIN ps.allResults # {}
                                  THEN Merge(S.data, ps.allResults) ELSE S.data,
                        !.loading = FALSE]
    IN AfterChunk(S1, p)

\* variant: Promise.all rejects when a channel failed, the pass is dropped
CompleteMicroAbort(S, p) ==
    LET ps == S.passes[p]
        good == {c \in DOMAIN ps.results : Len(ps.results[c]) > 0}
        ps1 == [ps EXCEPT !.allResults = Merge(ps.allResults, [c \in good |-> ps.results[c]]),
                          !.results = EmptyMap,
                          !.j = ps.j + batchSize]
        S1 == [S EXCEPT !.fetched = S.fetched \cup good, !.passes[p] = ps1]
    IN IF good # DOMAIN ps.results
       THEN [S EXCEPT !.loading = FALSE, !.fetching = FALSE, !.passes[p] = Idle]
       ELSE IF ps1.j < Len(Chunk(ps1)) THEN StartMicro(S1, p) ELSE CompleteChunk(S1, p)

\* fetchEpgBatch after `await Promise.all(...)`: results.forEach, next iteration
CompleteMicro(S, p) ==
    LET ps == S.passes[p]
        good == {c \in DOMAIN ps.results : Len(ps.results[c]) > 0}
        ps1 == [ps EXCEPT !.allResults = Merge(ps.allResults, [c \in good |-> ps.results[c]]),
                          !.results = EmptyMap,
                          !.j = ps.j + batchSize]
        S1 == [S EXCEPT !.fetched = S.fetched \cup good, !.passes[p] = ps1]
    IN IF ps1.j < Len(Chunk(ps1)) THEN StartMicro(S1, p) ELSE CompleteChunk(S1, p)

\* fetchEpgBatch: batch.map(fetchEpgForChannel), each call up to its await
StartMicro(S, p) ==
    LET ps == S.passes[p]
        chans == Range(Micro(ps))
        hit == {c \in chans : LookupKind(S.cache, c, now) = "hit"}
        miss == {c \in chans : LookupKind(S.cache, c, now) = "miss"}
        ps1 == [ps EXCEPT !.pending = miss,
                          !.results = [c \in hit |-> S.cache[StreamId(c)].programs],
                          !.hits = ps.hits \cup hit]
        S1 == [S EXCEPT !.passes[p] = ps1]
    IN IF miss = {} THEN CompleteMicro(S1, p) ELSE S1

\* fetchEpgBatch(batch) from its entry: setIsLoading(true), first micro-batch
fetchEpgBatch(S, p) ==
    LET ps == S.passes[p]
        S1 == [S EXCEPT !.loading = TRUE,
                        !.passes[p] = [ps EXCEPT !.pc = "fetch", !.j = 0,
                                                 !.allResults = EmptyMap,
                                                 !.results = EmptyMap]]
    IN StartMicro(S1, p)

\* variant: each answer is pushed to epgData as it arrives
fetchEpgForChannelEager(S, p, c, programs) ==
    LET ps == S.passes[p]
        ps1 == [ps EXCEPT !.pending = ps.pending \ {c},
                          !.results = Put(ps.results, c, programs)]
        S1 == [S EXCEPT !.cache = Put(S.cache, StreamId(c),
                                      [programs |-> programs, fetchedAt |-> now]),
                        !.data = IF Len(programs) > 0 THEN Put(S.data, c, programs)
                                 ELSE S.data,
                        !.passes[p] = ps1]
    IN IF ps1.pending = {} THEN CompleteMicro(S1, p) ELSE S1

\* fetchEpgForChannel after `await api.getShortEpg(streamId)`
fetchEpgForChannel(S, p, c, programs) ==
    LET ps == S.passes[p]
        ps1 == [ps EXCEPT !.pending = ps.pending \ {c},
                          !.results = Put(ps.results, c, programs)]
        S1 == [S EXCEPT !.cache = Put(S.cache, StreamId(c),
                                      [programs |-> programs, fetchedAt |-> now]),
                        !.passes[p] = ps1]
    IN IF ps1.pending = {} THEN CompleteMicro(S1, p) ELSE S1

Commit(S) ==
    /\ epgCache' = S.cache
    /\ epgData' = S.data
    /\ isLoading' = S.loading
    /\ fetchedRef' = S.fetched
    /\ isFetchingRef' = S.fetching
    /\ passes' = S.passes

----------------------------------------------------------------------------
(***************************************************************************)
(* State after construction: both hooks mounted, nothing fetched.          *)
(***************************************************************************)
EpgInit ==
    /\ now = 0
    /\ envn = 0
    /\ epgCache = EmptyMap
    /\ channels = <<>>
    /\ epgData = EmptyMap
    /\ isLoading = FALSE
    /\ fetchedRef = {}
    /\ isFetchingRef = FALSE
    /\ channelIdsRef = {}
    /\ passes = [p \in Slots |-> Idle]
    /\ timerDue = REFRESH_INTERVAL
    /\ refreshed = "no"
    /\ mounted = TRUE
    /\ enabled = TRUE
    /\ timers = {[due |-> REFRESH_INTERVAL, channels |-> <<>>]}

ChInit ==
    /\ chChannel = 0
    /\ currentProgram = NoProg
    /\ nextProgram = NoProg
    /\ shownFor = 0
    /\ chLoading = FALSE
    /\ chRequests = <<>>
    /\ chTimerDue = -1

(***************************************************************************)
(* Actions of useEPG.                                                      *)
(***************************************************************************)
\* setInterval(callback, 5 * 60 * 1000) of the periodic refresh effect
setInterval(set, due, list) == set \cup {[due |-> due, channels |-> list]}

\* variant: the effect returns no cleanup, its interval stays set
CleanupForgets == timers

\* the cleanup of the periodic refresh effect: clearInterval(interval)
Cleanup == timers \ {[due |-> timerDue, channels |-> channels]}

FreeSlot == CHOOSE p \in Slots : ~Active(passes[p]) /\ \A q \in Slots : q < p => Active(passes[q])

\* A render with the channel list `list`: the fetch effect and the periodic
\* refresh effect run (both depend on `channels`)
FetchEffect(list) ==
    /\ mounted
    /\ envn < MaxEnv
    /\ envn' = envn + 1
    /\ channels' = list
    /\ enabled' = TRUE
    /\ timerDue' = now + REFRESH_INTERVAL
    /\ timers' = setInterval(Cleanup, now + REFRESH_INTERVAL, list)
    /\ LET currentIds == CurrentIds(list)
           liveChannels == SelectSeqBy(list, {c \in Range(list) : IsLive(c) /\ c \notin fetchedRef})
       IN IF isFetchingRef /\ currentIds = channelIdsRef
          THEN UNCHANGED <<epgCache, epgData, isLoading, fetchedRef, isFetchingRef,
                           channelIdsRef, passes, refreshed>>
          ELSE /\ channelIdsRef' = currentIds
               /\ IF Len(liveChannels) > 0
                  THEN /\ InFlight # Slots
                       /\ LET p == FreeSlot
                              new == [Idle EXCEPT !.pc = "fetch", !.ids = currentIds,
                                                  !.list = liveChannels,
                                                  !.origin = refreshed,
                                                  !.alone = (refreshed = "quiet" /\ InFlight = {})]
                              others == [q \in Slots |-> [passes[q] EXCEPT !.alone = FALSE]]
                              S0 == [HookState EXCEPT !.fetching = TRUE,
                                                      !.passes = [others EXCEPT ![p] = new]]
                          IN Commit(fetchEpgBatch(S0, p))
                       /\ refreshed' = "no"
                  ELSE UNCHANGED <<epgCache, epgData, isLoading, fetchedRef,
                                   isFetchingRef, passes, refreshed>>
    /\ UNCHANGED <<now, mounted, chVars, dedupVars, settingsVars, xtreamVars, lookupVars, appVars>>

\* The get_short_epg request of pass p for channel c ends with outcome o
RespondWith(p, c, o, l) ==
    /\ Active(passes[p])
    /\ c \in passes[p].pending
    /\ Commit(fetchEpgForChannel(HookState, p, c, getShortEpg(o, l)))
    /\ UNCHANGED <<now, envn, channels, channelIdsRef, timerDue, refreshed, chVars, dedupVars, settingsVars, xtreamVars, lifeVars, lookupVars, appVars>>

\* The get_short_epg request of pass p for channel c is answered
Respond(p, c) == \E o \in Outcomes, l \in Listings : RespondWith(p, c, o, l)

\* loadAll: the 100 ms pause between two chunks is over
Resume(p) ==
    /\ passes[p].pc = "pause"
    /\ LET ps == passes[p]
           S0 == [HookState EXCEPT !.passes[p] = [ps EXCEPT !.i = ps.i + chunkSize]]
       IN Commit(fetchEpgBatch(S0, p))
    /\ UNCHANGED <<now, envn, channels, channelIdsRef, timerDue, refreshed, chVars, dedupVars, settingsVars, xtreamVars, lifeVars, lookupVars, appVars>>

\* variant: the manual refresh keeps the set of fetched ids
refreshEpgKeepFetched ==
    /\ envn < MaxEnv
    /\ envn' = envn + 1
    /\ epgCache' = EmptyMap
    /\ channelIdsRef' = {}
    /\ refreshed' = IF InFlight = {} THEN "quiet" ELSE "busy"
    /\ UNCHANGED <<now, channels, epgData, isLoading, fetchedRef, isFetchingRef,
                   passes, timerDue, chVars, dedupVars, settingsVars, xtreamVars, lifeVars, lookupVars, appVars>>

\* refreshEpg(): the manual refresh
refreshEpg ==
    /\ envn < MaxEnv
    /\ envn' = envn + 1
    /\ epgCache' = EmptyMap
    /\ fetchedRef' = {}
    /\ channelIdsRef' = {}
    /\ refreshed' = IF InFlight = {} THEN "quiet" ELSE "busy"
    /\ UNCHANGED <<now, channels, epgData, isLoading, isFetchingRef, passes, timerDue, chVars, dedupVars, settingsVars, xtreamVars, lifeVars, lookupVars, appVars>>

\* the setInterval callback of the periodic refresh effect
PeriodicRefresh ==
    \E t \in timers :
        /\ now = t.due
        /\ timers' = setInterval(timers \ {t}, now + REFRESH_INTERVAL, t.channels)
        /\ timerDue' = IF t.due = timerDue /\ t.channels = channels
                       THEN now + REFRESH_INTERVAL ELSE timerDue
        /\ IF CurrentIds(t.channels) # {}
           THEN /\ epgCache' = EmptyMap
                /\ fetchedRef' = {}
                /\ refreshed' = IF InFlight = {} THEN "quiet" ELSE "busy"
           ELSE UNCHANGED <<epgCache, fetchedRef, refreshed>>
        /\ UNCHANGED <<now, envn, channels, epgData, isLoading, isFetchingRef,
                       channelIdsRef, passes, mounted, enabled, chVars, dedupVars,
                       settingsVars, xtreamVars, lookupVars, appVars>>

\* the component unmounts: the cleanups of the effects run
Unmount ==
    /\ mounted
    /\ mounted' = FALSE
    /\ timers' = Cleanup
    /\ timerDue' = -1
    /\ UNCHANGED <<now, envn, epgCache, channels, epgData, isLoading, fetchedRef,
                   isFetchingRef, channelIdsRef, passes, refreshed, enabled, chVars,
                   dedupVars, settingsVars, xtreamVars, lookupVars, appVars>>

\* A render with enabled false or api null: the cleanups run and both
\* effects return at once
Disable ==
    /\ mounted
    /\ enabled
    /\ envn < MaxEnv
    /\ envn' = envn + 1
    /\ enabled' = FALSE
    /\ timers' = Cleanup
    /\ timerDue' = -1
    /\ UNCHANGED <<now, epgCache, channels, epgData, isLoading, fetchedRef,
                   isFetchingRef, channelIdsRef, passes, refreshed, mounted, chVars,
                   dedupVars, settingsVars, xtreamVars, lookupVars, appVars>>

(***************************************************************************)
(* Actions of useChannelEPG.                                               *)
(***************************************************************************)
\* fetchEpg() up to its await, for channel c
ChFetchEpg(c) ==
    IF CacheFresh(epgCache, StreamId(c), now)
    THEN /\ currentProgram' = FindCurrent(epgCache[StreamId(c)].programs, now)
         /\ nextProgram' = FindNext(epgCache[StreamId(c)].programs, now)
         /\ shownFor' = c
         /\ UNCHANGED <<chLoading, chRequests>>
    ELSE /\ Len(chRequests) < MaxChRequests
         /\ chLoading' = TRUE
         /\ chRequests' = Append(chRequests, c)
         /\ UNCHANGED <<currentProgram, nextProgram, shownFor>>

\* A render with the channel c (0 = null): the effect runs
ChEffect(c) ==
    /\ envn < MaxEnv
    /\ envn' = envn + 1
    /\ chChannel' = c
    /\ IF c = 0 \/ ~IsLive(c)
       THEN /\ currentProgram' = NoProg
            /\ nextProgram' = NoProg
            /\ shownFor' = 0
            /\ chTimerDue' = -1
            /\ UNCHANGED <<chLoading, chRequests>>
       ELSE IF StreamId(c) = 0
       THEN /\ chTimerDue' = -1
            /\ UNCHANGED <<currentProgram, nextProgram, shownFor, chLoading, chRequests>>
       ELSE /\ ChFetchEpg(c)
            /\ chTimerDue' = now + CHANNEL_INTERVAL
    /\ UNCHANGED <<now, epgCache, epgVars, dedupVars, settingsVars, xtreamVars, lifeVars, lookupVars, appVars>>

\* setInterval(fetchEpg, 60 * 1000) fires
ChInterval ==
    /\ chTimerDue = now
    /\ ChFetchEpg(chChannel)
    /\ chTimerDue' = now + CHANNEL_INTERVAL
    /\ UNCHANGED <<now, envn, epgCache, chChannel, epgVars, dedupVars, settingsVars, xtreamVars, lifeVars, lookupVars, appVars>>

\* fetchEpg() after `await api.getShortEpg(streamId)`, for the k-th request
ChRespond(k) ==
    /\ k \in 1..Len(chRequests)
    /\ \E o \in Outcomes, l \in Listings :
          LET programs == getShortEpg(o, l) IN
          /\ epgCache' = Put(epgCache, StreamId(chRequests[k]),
                             [programs |-> programs, fetchedAt |-> now])
          /\ currentProgram' = FindCurrent(programs, now)
          /\ nextProgram' = FindNext(programs, now)
    /\ shownFor' = chRequests[k]
    /\ chLoading' = FALSE
    /\ chRequests' = RemoveAt(chRequests, k)
    /\ UNCHANGED <<now, envn, chChannel, chTimerDue, epgVars, dedupVars, settingsVars, xtreamVars, lifeVars, lookupVars, appVars>>

(***************************************************************************)
(* The clock.  A timer that is due fires before time moves on.             *)
(***************************************************************************)
\* one minute passes
Tick ==
    /\ now < MaxTime
    /\ \A t \in timers : now < t.due
    /\ chTimerDue = -1 \/ now < chTimerDue
    /\ now' = now + 1
    /\ UNCHANGED <<envn, epgCache, epgVars, chVars, dedupVars, settingsVars, xtreamVars, lifeVars, lookupVars, appVars>>

\* time passes until the periodic refresh is due
Elapse ==
    /\ timerDue <= MaxTime
    /\ now < timerDue
    /\ now' = timerDue
    /\ UNCHANGED <<envn, epgCache, epgVars, chVars, dedupVars, settingsVars, xtreamVars, lifeVars, lookupVars, appVars>>

(***************************************************************************)
(* Strings.  A name is a string; the regular expressions of                *)
(* contentParser.ts are computed character by character.                   *)
(***************************************************************************)
UpperLetters == "ABCDEFGHIJKLMNOPQRSTUVWXYZ"
LowerLetters == "abcdefghijklmnopqrstuvwxyz"
Digits == "0123456789"

\* an absent (undefined) string field
undefined == "undefined"

Ch(s, n) == IF n >= 1 /\ n <= Len(s) THEN SubSeq(s, n, n) ELSE ""

IndexIn(ch, alphabet) ==
    IF \E n \in 1..Len(alphabet) : Ch(alphabet, n) = ch
    THEN CHOOSE n \in 1..Len(alphabet) : Ch(alphabet, n) = ch
    ELSE 0

RECURSIVE toUpperCase(_)
toUpperCase(s) ==
    IF s = "" THEN ""
    ELSE LET n == IndexIn(Ch(s, 1), LowerLetters)
         IN (IF n > 0 THEN Ch(UpperLetters, n) ELSE Ch(s, 1)) \o toUpperCase(Tail(s))

RECURSIVE toLowerCase(_)
toLowerCase(s) ==
    IF s = "" THEN ""
    ELSE LET n == IndexIn(Ch(s, 1), UpperLetters)
         IN (IF n > 0 THEN Ch(LowerLetters, n) ELSE Ch(s, 1)) \o toLowerCase(Tail(s))

IsDigit(ch) == IndexIn(ch, Digits) > 0
IsLetter(ch) == IndexIn(ch, UpperLetters \o LowerLetters) > 0
\* \s and \w of the regular expressions
IsSpace(ch) == ch = " "
IsWord(ch) == IsLetter(ch) \/ IsDigit(ch) \/ ch = "_"
\* [:\-|]
IsSeparator(ch) == ch \in {":", "-", "|"}

\* \b in front of position n
Boundary(s, n) == IsWord(Ch(s, n - 1)) # IsWord(Ch(s, n))

\* the first position from n on that holds no white space (\s* from n)
RECURSIVE SkipSpaces(_, _)
SkipSpaces(s, n) == IF IsSpace(Ch(s, n)) THEN SkipSpaces(s, n + 1) ELSE n

RECURSIVE trim(_)
trim(s) ==
    IF s = "" THEN ""
    ELSE IF IsSpace(Ch(s, 1)) THEN trim(Tail(s))
    ELSE IF IsSpace(Ch(s, Len(s))) THEN trim(SubSeq(s, 1, Len(s) - 1))
    ELSE s

\* parseInt of a string of digits
RECURSIVE parseInt(_)
parseInt(s) ==
    IF s = "" THEN 0
    ELSE 10 * parseInt(SubSeq(s, 1, Len(s) - 1)) + (IndexIn(Ch(s, Len(s)), Digits) - 1)

\* a match of a regular expression: where it starts and how long it is
NoMatch == [start |-> 0, len |-> 0]
Match(start, len) == [start |-> start, len |-> len]

\* the least element of a set of positions, 0 if there is none
First(positions) ==
    IF positions = {} THEN 0
    ELSE CHOOSE n \in positions : \A m \in positions : n <= m

\* the leftmost match, given the length len[n] of the match at every
\* position n (0: no match there)
Leftmost(len) ==
    LET At(n) == IF n = 0 THEN NoMatch ELSE Match(n, len[n])
    IN At(First({n \in DOMAIN len : len[n] > 0}))

\* String.prototype.replace(pattern, ''), given the match of the pattern
Remove(s, m) ==
    IF m.start = 0 THEN s
    ELSE SubSeq(s, 1, m.start - 1) \o SubSeq(s, m.start + m.len, Len(s))

Matched(s, m) == SubSeq(s, m.start, m.start + m.len - 1)

(***************************************************************************)
(* /\b(w1|w2|...)\b/i, with the look-ahead (?!\s*$) of the HD pattern when *)
(* `lookahead` is set.                                                     *)
(***************************************************************************)
Pattern(words, lookahead) == [words |-> words, lookahead |-> lookahead]

LiteralAt(s, n, w) ==
    /\ n + Len(w) - 1 <= Len(s)
    /\ toUpperCase(SubSeq(s, n, n + Len(w) - 1)) = toUpperCase(w)

\* length of the first alternative that matches at n, 0 if none does
RECURSIVE AlternativeAt(_, _, _, _)
AlternativeAt(s, n, words, lookahead) ==
    IF words = <<>> THEN 0
    ELSE LET w == Head(words)
             after == n + Len(w)
         IN IF /\ LiteralAt(s, n, w)
               /\ Boundary(s, after)
               /\ lookahead => SkipSpaces(s, after) <= Len(s)
            THEN Len(w)
            ELSE AlternativeAt(s, n, Tail(words), lookahead)

exec(pattern, s) ==
    Leftmost([n \in 1..Len(s) |->
                 IF Boundary(s, n)
                 THEN AlternativeAt(s, n, pattern.words, pattern.lookahead) ELSE 0])

test(pattern, s) == exec(pattern, s).start > 0

replace(s, pattern) == Remove(s, exec(pattern, s))

(***************************************************************************)
(* The tables of contentParser.ts and preferences.types.ts.                *)
(***************************************************************************)
COUNTRY_PATTERNS == <<
    [code |-> "FR", pattern |-> Pattern(<<"FR", "FRANCE", "FRENCH">>, FALSE)],
    [code |-> "BE", pattern |-> Pattern(<<"BE", "BELGIUM", "BELGE">>, FALSE)],
    [code |-> "CH", pattern |-> Pattern(<<"CH", "SUISSE", "SWISS">>, FALSE)],
    [code |-> "CA", pattern |-> Pattern(<<"CA", "CANADA", "CANADIAN">>, FALSE)],
    [code |-> "US", pattern |-> Pattern(<<"US", "USA", "AMERICAN", "ENGLISH">>, FALSE)],
    [code |-> "UK", pattern |-> Pattern(<<"UK", "GB", "BRITISH">>, FALSE)],
    [code |-> "ES", pattern |-> Pattern(<<"ES", "SPAIN", "SPANISH", "ESPANA">>, FALSE)],
    [code |-> "IT", pattern |-> Pattern(<<"IT", "ITALY", "ITALIAN", "ITALIA">>, FALSE)],
    [code |-> "DE", pattern |-> Pattern(<<"DE", "GERMANY", "GERMAN", "DEUTSCH">>, FALSE)],
    [code |-> "PT", pattern |-> Pattern(<<"PT", "PORTUGAL", "PORTUGUESE">>, FALSE)],
    [code |-> "AR", pattern |-> Pattern(<<"AR", "ARAB", "ARABIC", "ARABE">>, FALSE)],
    [code |-> "TR", pattern |-> Pattern(<<"TR", "TURKEY", "TURKISH", "TURK">>, FALSE)],
    [code |-> "NL", pattern |-> Pattern(<<"NL", "NETHERLANDS", "DUTCH">>, FALSE)],
    [code |-> "PL", pattern |-> Pattern(<<"PL", "POLAND", "POLISH">>, FALSE)],
    [code |-> "RO", pattern |-> Pattern(<<"RO", "ROMANIA", "ROMANIAN">>, FALSE)],
    [code |-> "RU", pattern |-> Pattern(<<"RU", "RUSSIA", "RUSSIAN">>, FALSE)],
    [code |-> "IN", pattern |-> Pattern(<<"IN", "INDIA", "INDIAN", "HINDI">>, FALSE)],
    [code |-> "BR", pattern |-> Pattern(<<"BR", "BRAZIL", "BRAZILIAN">>, FALSE)],
    [code |-> "MX", pattern |-> Pattern(<<"MX", "MEXICO", "MEXICAN">>, FALSE)],
    [code |-> "JP", pattern |-> Pattern(<<"JP", "JAPAN", "JAPANESE">>, FALSE)],
    [code |-> "KR", pattern |-> Pattern(<<"KR", "KOREA", "KOREAN">>, FALSE)],
    [code |-> "CN", pattern |-> Pattern(<<"CN", "CHINA", "CHINESE">>, FALSE)] >>

\* the keys of COUNTRIES
COUNTRIES == {COUNTRY_PATTERNS[n].code : n \in DOMAIN COUNTRY_PATTERNS}

QUALITY_PATTERNS == <<
    [quality |-> "4K", pattern |-> Pattern(<<"4K", "UHD", "2160p">>, FALSE)],
    [quality |-> "FHD", pattern |-> Pattern(<<"FHD", "1080p", "FULLHD", "FULL HD">>, FALSE)],
    [quality |-> "HD", pattern |-> Pattern(<<"HD", "720p">>, TRUE)],
    [quality |-> "SD", pattern |-> Pattern(<<"SD", "480p", "LQ">>, FALSE)] >>

LANGUAGE_PATTERNS == <<
    [lang |-> "MULTI", pattern |-> Pattern(<<"MULTI", "MULTi">>, FALSE)],
    [lang |-> "VFF", pattern |-> Pattern(<<"VFF", "FRENCH">>, FALSE)],
    [lang |-> "VF", pattern |-> Pattern(<<"VF">>, FALSE)],
    [lang |-> "TRUEFRENCH", pattern |-> Pattern(<<"TRUEFRENCH", "TRUE FRENCH">>, FALSE)],
    [lang |-> "VOSTFR", pattern |-> Pattern(<<"VOSTFR", "STFR">>, FALSE)],
    [lang |-> "VO", pattern |-> Pattern(<<"VO">>, FALSE)] >>

\* index of the first entry of a table whose pattern matches s, 0 if none
FirstMatching(table, s) == First({n \in DOMAIN table : test(table[n].pattern, s)})

\* /^([A-Z]{2})\s*[:\-|]\s*/i : the length of the match, 0 if none
CountryPrefix(s) ==
    LET sep == SkipSpaces(s, 3)
    IN IF IsLetter(Ch(s, 1)) /\ IsLetter(Ch(s, 2)) /\ IsSeparator(Ch(s, sep))
       THEN SkipSpaces(s, sep + 1) - 1
       ELSE 0

\* YEAR_PATTERN /\(?(19|20)\d{2}\)?/
YearAt(s, n) ==
    LET open == IF Ch(s, n) = "(" THEN 1 ELSE 0
        d == n + open
    IN IF /\ SubSeq(s, d, Min(d + 1, Len(s))) \in {"19", "20"}
          /\ IsDigit(Ch(s, d + 2))
          /\ IsDigit(Ch(s, d + 3))
       THEN open + 4 + (IF Ch(s, d + 4) = ")" THEN 1 ELSE 0)
       ELSE 0

YEAR_PATTERN(s) == Leftmost([n \in 1..Len(s) |-> YearAt(s, n)])

\* the digits of a string, in order: parseInt(m.replace(/[()]/g, ''))
RECURSIVE DigitsOf(_)
DigitsOf(s) ==
    IF s = "" THEN ""
    ELSE (IF IsDigit(Ch(s, 1)) THEN Ch(s, 1) ELSE "") \o DigitsOf(Tail(s))

\* \d{1,2} at n: 2, 1 or 0 digits
DigitsAt(s, n) ==
    IF ~IsDigit(Ch(s, n)) THEN 0 ELSE IF IsDigit(Ch(s, n + 1)) THEN 2 ELSE 1

\* SEASON_EPISODE_PATTERN /S(\d{1,2})(?:E(\d{1,2}))?/i
\* sd digits of the season from n + 1, ed digits of the episode behind the E
SeasonEpisodeAt(s, n) ==
    LET Groups(sd, ed) ==
            IF toUpperCase(Ch(s, n)) = "S" /\ sd > 0
            THEN [len |-> 1 + sd + (IF ed > 0 THEN 1 + ed ELSE 0),
                  season |-> parseInt(SubSeq(s, n + 1, n + sd)),
                  episode |-> IF ed > 0
                              THEN parseInt(SubSeq(s, n + sd + 2, n + sd + 1 + ed))
                              ELSE -1]
            ELSE [len |-> 0, season |-> -1, episode |-> -1]
        Episode(sd) ==
            Groups(sd, IF toUpperCase(Ch(s, n + sd + 1)) = "E"
                       THEN DigitsAt(s, n + sd + 2) ELSE 0)
    IN Episode(DigitsAt(s, n + 1))

SEASON_EPISODE_PATTERN(s) == Leftmost([n \in 1..Len(s) |-> SeasonEpisodeAt(s, n).len])

\* SEASON_PATTERN /\bS(?:AISON|EASON)?\s*(\d{1,2})\b/i
\* the digits start at d, behind the word and the white space; nd of them
\* are taken, the most that a \b follows
SeasonAt(s, n) ==
    LET Group(d, nd) ==
            IF Boundary(s, n) /\ toUpperCase(Ch(s, n)) = "S" /\ nd > 0
            THEN [len |-> d + nd - n, season |-> parseInt(SubSeq(s, d, d + nd - 1))]
            ELSE [len |-> 0, season |-> -1]
        Number(d) ==
            Group(d, IF DigitsAt(s, d) = 2 /\ Boundary(s, d + 2) THEN 2
                     ELSE IF DigitsAt(s, d) >= 1 /\ Boundary(s, d + 1) THEN 1
                     ELSE 0)
    IN Number(SkipSpaces(s, n + (IF \/ LiteralAt(s, n + 1, "AISON")
                                    \/ LiteralAt(s, n + 1, "EASON")
                                 THEN 6 ELSE 1)))

SEASON_PATTERN(s) == Leftmost([n \in 1..Len(s) |-> SeasonAt(s, n).len])

\* .replace(/[:\-|]+/g, ' ')
RECURSIVE ReplaceSeparators(_)
ReplaceSeparators(s) ==
    IF s = "" THEN ""
    ELSE IF ~IsSeparator(Ch(s, 1)) THEN Ch(s, 1) \o ReplaceSeparators(Tail(s))
    ELSE IF IsSeparator(Ch(s, 2)) THEN ReplaceSeparators(Tail(s))
    ELSE " " \o ReplaceSeparators(Tail(s))

\* .replace(/\s+/g, ' ')
RECURSIVE CollapseSpaces(_)
CollapseSpaces(s) ==
    IF s = "" THEN ""
    ELSE IF IsSpace(Ch(s, 1)) /\ IsSpace(Ch(s, 2)) THEN CollapseSpaces(Tail(s))
    ELSE Ch(s, 1) \o CollapseSpaces(Tail(s))

\* /\s*\(\s*\)\s*/ at n: the length of the match, 0 if none
EmptyParensAt(s, n) ==
    LET open == SkipSpaces(s, n)
        close == SkipSpaces(s, open + 1)
    IN IF Ch(s, open) = "(" /\ Ch(s, close) = ")"
       THEN SkipSpaces(s, close + 1) - n
       ELSE 0

\* .replace(/\s*\(\s*\)\s*/g, '')
RECURSIVE RemoveEmptyParens(_)
RemoveEmptyParens(s) ==
    IF s = "" THEN ""
    ELSE LET k == EmptyParensAt(s, 1)
         IN IF k > 0 THEN RemoveEmptyParens(SubSeq(s, k + 1, Len(s)))
            ELSE Ch(s, 1) \o RemoveEmptyParens(Tail(s))

(***************************************************************************)
(* parseContentMetadata(name), one operator per block of the function.     *)
(* `m` holds cleanName and the fields found so far.                        *)
(***************************************************************************)
\* let cleanName = name, every field undefined
NoMetadata(name) ==
    [cleanName |-> name, country |-> undefined, language |-> undefined,
     quality |-> undefined, year |-> -1, season |-> -1, episode |-> -1]

\* the country prefix ("FR: TF1", "FR | TF1"), when its code is in COUNTRIES
CountryPrefixStep(name, m) ==
    LET prefix == CountryPrefix(name)
        code == toUpperCase(SubSeq(name, 1, 2))
    IN IF prefix > 0 /\ code \in COUNTRIES
       THEN [m EXCEPT !.country = code,
                      !.cleanName = trim(SubSeq(name, prefix + 1, Len(name)))]
       ELSE m

\* if (!country): the first entry of COUNTRY_PATTERNS that matches the name
CountryPatternStep(name, m) ==
    LET Found(cn) ==
            IF m.country = undefined /\ cn > 0
            THEN [m EXCEPT !.country = COUNTRY_PATTERNS[cn].code]
            ELSE m
    IN Found(FirstMatching(COUNTRY_PATTERNS, name))

QualityStep(name, m) ==
    LET Found(qn) ==
            IF qn > 0
            THEN [m EXCEPT !.quality = QUALITY_PATTERNS[qn].quality,
                           !.cleanName = trim(replace(@, QUALITY_PATTERNS[qn].pattern))]
            ELSE m
    IN Found(FirstMatching(QUALITY_PATTERNS, name))

LanguageStep(name, m) ==
    LET Found(ln) ==
            IF ln > 0
            THEN [m EXCEPT !.language = LANGUAGE_PATTERNS[ln].lang,
                           !.cleanName = trim(replace(@, LANGUAGE_PATTERNS[ln].pattern))]
            ELSE m
    IN Found(FirstMatching(LANGUAGE_PATTERNS, name))

YearStep(name, m) ==
    LET Found(yearMatch) ==
            IF yearMatch.start > 0
            THEN [m EXCEPT !.year = parseInt(DigitsOf(Matched(name, yearMatch))),
                           !.cleanName = trim(Remove(@, YEAR_PATTERN(@)))]
            ELSE m
    IN Found(YEAR_PATTERN(name))

\* variant: the season is looked for in the working copy
SeasonStepOnCopy(name, m) ==
    LET Groups(se) ==
            [m EXCEPT !.season = se.season,
                      !.episode = se.episode,
                      !.cleanName = trim(Remove(@, SEASON_EPISODE_PATTERN(@)))]
        Group(s) ==
            [m EXCEPT !.season = s.season,
                      !.cleanName = trim(Remove(@, SEASON_PATTERN(@)))]
        Found(seMatch, sMatch) ==
            IF seMatch.start > 0 THEN Groups(SeasonEpisodeAt(m.cleanName, seMatch.start))
            ELSE IF sMatch.start > 0 THEN Group(SeasonAt(m.cleanName, sMatch.start))
            ELSE m
    IN Found(SEASON_EPISODE_PATTERN(m.cleanName), SEASON_PATTERN(m.cleanName))

SeasonStep(name, m) ==
    LET Groups(se) ==
            [m EXCEPT !.season = se.season,
                      !.episode = se.episode,
                      !.cleanName = trim(Remove(@, SEASON_EPISODE_PATTERN(@)))]
        Group(s) ==
            [m EXCEPT !.season = s.season,
                      !.cleanName = trim(Remove(@, SEASON_PATTERN(@)))]
        Found(seMatch, sMatch) ==
            IF seMatch.start > 0 THEN Groups(SeasonEpisodeAt(name, seMatch.start))
            ELSE IF sMatch.start > 0 THEN Group(SeasonAt(name, sMatch.start))
            ELSE m
    IN Found(SEASON_EPISODE_PATTERN(name), SEASON_PATTERN(name))

\* the final clean-up, and cleanName || name
CleanStep(name, m) ==
    LET Or(cleanName) == IF cleanName = "" THEN name ELSE cleanName
    IN [m EXCEPT !.cleanName =
           Or(trim(RemoveEmptyParens(trim(CollapseSpaces(ReplaceSeparators(@))))))]

parseContentMetadata(name) ==
    CleanStep(name,
      SeasonStep(name,
        YearStep(name,
          LanguageStep(name,
            QualityStep(name,
              CountryPatternStep(name,
                CountryPrefixStep(name, NoMetadata(name))))))))

\* the names handed to parseContentMetadata: a title, with or without a
\* country prefix, and up to MaxTags tags behind it
Tags ==
    {" FR", " FRENCH", " FHD", " HD", " VF", " 2010", " S2010", " S01E02", " (2010)",
     " [FHD]"}

RECURSIVE Join(_, _)
Join(tags, n) == IF n > Len(tags) THEN "" ELSE tags[n] \o Join(tags, n + 1)

ExtractNames ==
    {title \o Join(tags, 1) :
        title \in {"Inception", "FR: TF1"},
        tags \in UNION {[1..n -> Tags] : n \in 0..MaxTags}}

ExtractInit ==
    /\ input \in ExtractNames
    /\ call = "none"
    /\ args = <<>>
    /\ result = <<>>

\* the name of a record is parsed
ParseContentMetadata ==
    /\ call = "none"
    /\ call' = "parseContentMetadata"
    /\ args' = input
    /\ result' = parseContentMetadata(input)
    /\ UNCHANGED <<input, now, envn, epgCache, epgVars, chVars, settingsVars, xtreamVars, lifeVars, lookupVars, appVars>>

\* the names of the records of the model
SampleNames == {"FR: TF1 FHD", "FR | TF1", "fr - tf1 SD", "TF1 HD", "Inception (2010) FHD",
                "INCEPTION 2010 VF", "Lupin S01E02", "Lupin S01E03 VOSTFR",
                "Le Journal FR", "Le Journal FRANCE"}

\* parseContentMetadata over the names of the model, computed once
MetadataOf == [name \in SampleNames |-> parseContentMetadata(name)]

\* variant: the quality tag is part of the key of a channel
getContentKeyWithQuality(name, type) ==
    LET Key(meta) ==
    IF type = "channel"
    THEN toLowerCase(meta.cleanName) \o "_" \o meta.quality \o "_"
            \o (IF meta.country = undefined THEN "unknown" ELSE meta.country)
    ELSE IF type = "series"
    THEN toLowerCase(meta.cleanName) \o "_s"
            \o ToString(IF meta.season = -1 THEN 0 ELSE meta.season)
    ELSE toLowerCase(meta.cleanName) \o "_"
            \o ToString(IF meta.year = -1 THEN 0 ELSE meta.year)
    IN Key(MetadataOf[name])

\* getContentKey(name, type)
getContentKey(name, type) ==
    LET Key(meta) ==
    IF type = "channel"
    THEN toLowerCase(meta.cleanName) \o "_"
            \o (IF meta.country = undefined THEN "unknown" ELSE meta.country)
    ELSE IF type = "series"
    THEN toLowerCase(meta.cleanName) \o "_s"
            \o ToString(IF meta.season = -1 THEN 0 ELSE meta.season)
    ELSE toLowerCase(meta.cleanName) \o "_"
            \o ToString(IF meta.year = -1 THEN 0 ELSE meta.year)
    IN Key(MetadataOf[name])

(***************************************************************************)
(* deduplicator.ts.  `groups` is the Map of a deduplicate function: its    *)
(* entries in insertion order, each a key and the records pushed under it. *)
(***************************************************************************)
\* variant: groups.set(key, [record]), the records already there are dropped
SetGroupOverwrite(groups, key, record) ==
    IF \E n \in DOMAIN groups : groups[n].key = key
    THEN [n \in DOMAIN groups |->
             IF groups[n].key = key
             THEN [groups[n] EXCEPT !.members = <<record>>] ELSE groups[n]]
    ELSE Append(groups, [key |-> key, members |-> <<record>>])

\* variant: existing.unshift(record), the newest record comes first
SetGroupUnshift(groups, key, record) ==
    IF \E n \in DOMAIN groups : groups[n].key = key
    THEN [n \in DOMAIN groups |->
             IF groups[n].key = key
             THEN [groups[n] EXCEPT !.members = <<record>> \o @] ELSE groups[n]]
    ELSE Append(groups, [key |-> key, members |-> <<record>>])

\* existing = groups.get(key) || []; existing.push(record); groups.set(key, existing)
SetGroup(groups, key, record) ==
    IF \E n \in DOMAIN groups : groups[n].key = key
    THEN [n \in DOMAIN groups |->
             IF groups[n].key = key
             THEN [groups[n] EXCEPT !.members = Append(@, record)] ELSE groups[n]]
    ELSE Append(groups, [key |-> key, members |-> <<record>>])

\* the grouping loop of a deduplicate function
RECURSIVE GroupByKey(_, _, _)
GroupByKey(groups, records, type) ==
    IF records = <<>> THEN groups
    ELSE GroupByKey(SetGroup(groups, getContentKey(Head(records).name, type), Head(records)),
                    Tail(records), type)

\* variant: the record pushed last stands for its group
ToContentLast(groups, type) ==
    [n \in DOMAIN groups |->
        LET Variant(ch, meta) ==
                [id |-> ch.id, quality |-> meta.quality, language |-> meta.language]
            Content(first, metadata) ==
                [id |-> first.id,
                 name |-> metadata.cleanName,
                 logo |-> first.logo,
                 group |-> first.group,
                 type |-> type,
                 metadata |-> metadata,
                 variants |-> [k \in DOMAIN groups[n].members |->
                                  Variant(groups[n].members[k],
                                          MetadataOf[groups[n].members[k].name])]]
        IN Content(groups[n].members[Len(groups[n].members)],
                   MetadataOf[groups[n].members[Len(groups[n].members)].name])]

\* the conversion loop: one DeduplicatedContent per entry of the Map
ToContent(groups, type) ==
    [n \in DOMAIN groups |->
        LET Variant(ch, meta) ==
                [id |-> ch.id, quality |-> meta.quality, language |-> meta.language]
            Content(first, metadata) ==
                [id |-> first.id,
                 name |-> metadata.cleanName,
                 logo |-> first.logo,
                 group |-> first.group,
                 type |-> type,
                 metadata |-> metadata,
                 variants |-> [k \in DOMAIN groups[n].members |->
                                  Variant(groups[n].members[k],
                                          MetadataOf[groups[n].members[k].name])]]
        IN Content(groups[n].members[1], MetadataOf[groups[n].members[1].name])]

IsChannel(ch) == ch.isLive
IsMovie(ch) == ~ch.isLive /\ ch.streamType = "vod"
IsSeries(ch) == ~ch.isLive /\ ch.streamType = "series"

deduplicateChannels(list) == ToContent(GroupByKey(<<>>, SelectSeq(list, IsChannel), "channel"), "channel")

deduplicateMovies(list) == ToContent(GroupByKey(<<>>, SelectSeq(list, IsMovie), "movie"), "movie")

deduplicateSeries(list) == ToContent(GroupByKey(<<>>, SelectSeq(list, IsSeries), "series"), "series")

(***************************************************************************)
(* The records of the model: a name, isLive and streamType; the id of a    *)
(* record is its position in the input, and its logo and group are its own.*)
(***************************************************************************)
Templates == {
    [name |-> "FR: TF1 FHD", isLive |-> TRUE, streamType |-> "live"],
    [name |-> "FR | TF1", isLive |-> TRUE, streamType |-> "live"],
    [name |-> "fr - tf1 SD", isLive |-> TRUE, streamType |-> undefined],
    [name |-> "TF1 HD", isLive |-> TRUE, streamType |-> "live"],
    [name |-> "Inception (2010) FHD", isLive |-> FALSE, streamType |-> "vod"],
    [name |-> "INCEPTION 2010 VF", isLive |-> FALSE, streamType |-> "vod"],
    [name |-> "Lupin S01E02", isLive |-> FALSE, streamType |-> "series"],
    [name |-> "Lupin S01E03 VOSTFR", isLive |-> FALSE, streamType |-> undefined],
    [name |-> "Le Journal FR", isLive |-> TRUE, streamType |-> "live"],
    [name |-> "Le Journal FRANCE", isLive |-> TRUE, streamType |-> "live"] }

WithIds(ts) == [k \in DOMAIN ts |-> [id |-> k, name |-> ts[k].name,
                                     logo |-> "logo" \o ToString(k),
                                     group |-> "group" \o ToString(k),
                                     isLive |-> ts[k].isLive,
                                     streamType |-> ts[k].streamType]]

Inputs == UNION {{WithIds(ts) : ts \in [1..n -> Templates]} : n \in 0..MaxRecords}

\* the orders in which a list of n records can be handed over
Orders(n) == {f \in [1..n -> 1..n] : \A a, b \in 1..n : a # b => f[a] # f[b]}

Reorder(list, order) == [k \in DOMAIN list |-> list[order[k]]]

DedupIdle ==
    /\ input = <<>>
    /\ call = "none"
    /\ args = <<>>
    /\ result = <<>>

DedupInit ==
    /\ input \in Inputs
    /\ call = "none"
    /\ args = <<>>
    /\ result = <<>>

hookVars == <<now, envn, epgCache, epgVars, chVars, settingsVars, xtreamVars, lifeVars, lookupVars, appVars>>

\* One call per behaviour: the functions are pure, a second call on the same
\* list returns the same value.
\* the UI deduplicates the live channels
DeduplicateChannels ==
    /\ call = "none"
    /\ call' = "channels"
    /\ args' = input
    /\ result' = deduplicateChannels(input)
    /\ UNCHANGED <<input, hookVars>>

\* the same list arrives in another order (another playlist order)
DeduplicateReordered ==
    /\ call = "none"
    /\ \E order \in Orders(Len(input)) :
          /\ args' = Reorder(input, order)
          /\ result' = deduplicateChannels(Reorder(input, order))
    /\ call' = "channels"
    /\ UNCHANGED <<input, hookVars>>

DeduplicateMovies ==
    /\ call = "none"
    /\ call' = "movies"
    /\ args' = input
    /\ result' = deduplicateMovies(input)
    /\ UNCHANGED <<input, hookVars>>

DeduplicateSeries ==
    /\ call = "none"
    /\ call' = "series"
    /\ args' = input
    /\ result' = deduplicateSeries(input)
    /\ UNCHANGED <<input, hookVars>>

(***************************************************************************)
(* m3uParser.ts.  A playlist is the list of its lines (content.split).     *)
(***************************************************************************)
\* the characters of code 32 to 95 and of code 97 to 126, in the order of
\* their codes (code 96 cannot be written in a string here and is in no line
\* of the model)
AsciiLow == " !\"#$%&'()*+,-./0123456789:;<=>?@ABCDEFGHIJKLMNOPQRSTUVWXYZ[\\]^_"
AsciiHigh == "abcdefghijklmnopqrstuvwxyz{|}~"

\* String.prototype.charCodeAt
charCodeAt(s, n) ==
    IF IndexIn(Ch(s, n), AsciiLow) > 0 THEN IndexIn(Ch(s, n), AsciiLow) + 31
    ELSE IndexIn(Ch(s, n), AsciiHigh) + 96

startsWith(s, prefix) ==
    Len(prefix) <= Len(s) /\ SubSeq(s, 1, Len(prefix)) = prefix

endsWith(s, suffix) ==
    Len(suffix) <= Len(s) /\ SubSeq(s, Len(s) - Len(suffix) + 1, Len(s)) = suffix

\* String.prototype.indexOf from position `from` on, counted from 1; 0 if absent
indexOfFrom(s, sub, from) ==
    First({n \in from..(Len(s) - Len(sub) + 1) : SubSeq(s, n, n + Len(sub) - 1) = sub})

includes(s, sub) == indexOfFrom(s, sub, 1) > 0

\* String.prototype.lastIndexOf, counted from 1; 0 if absent
lastIndexOf(s, sub) ==
    LET Last(positions) ==
            IF positions = {} THEN 0
            ELSE CHOOSE n \in positions : \A m \in positions : m <= n
    IN Last({n \in 1..(Len(s) - Len(sub) + 1) : SubSeq(s, n, n + Len(sub) - 1) = sub})

(***************************************************************************)
(* generateChannelId.  The hash is a 32-bit integer, kept as its two       *)
(* 16-bit halves <<hi, lo>> of the unsigned value.                         *)
(***************************************************************************)
\* hash = ((hash << 5) - hash) + char; hash = hash & hash
HashStep(hash, char) ==
    LET Carry(lo) == <<(31 * hash[1] + lo \div 65536) % 65536, lo % 65536>>
    IN Carry(31 * hash[2] + char)

RECURSIVE HashFrom(_, _, _)
HashFrom(hash, str, i) ==
    IF i > Len(str) THEN hash
    ELSE CHOOSE last \in {HashFrom(stepped, str, i + 1) :
                             stepped \in {HashStep(hash, charCodeAt(str, i))}} : TRUE

\* Math.abs of the signed value
Abs32(hash) ==
    IF hash[1] < 32768 THEN hash
    ELSE <<(65535 - hash[1] + (IF hash[2] = 0 THEN 1 ELSE 0)) % 65536,
           (65536 - hash[2]) % 65536>>

Base36Digits == "0123456789abcdefghijklmnopqrstuvwxyz"

\* Number.prototype.toString(36)
RECURSIVE toString36(_)
toString36(n) ==
    LET Low(rest) ==
            \* quotient and remainder of n by 36
            LET Digit(q, r) ==
                    (IF q = <<0, 0>> THEN "" ELSE toString36(q)) \o Ch(Base36Digits, r + 1)
            IN Digit(<<n[1] \div 36, rest \div 36>>, rest % 36)
    IN Low((n[1] % 36) * 65536 + n[2])

generateChannelId(name, url) ==
    toString36(Abs32(HashFrom(<<0, 0>>, name \o "-" \o url, 1)))

\* the number of digits from position n on (\d+)
RECURSIVE DigitRun(_, _)
DigitRun(s, n) == IF IsDigit(Ch(s, n)) THEN 1 + DigitRun(s, n + 1) ELSE 0

\* rest.lastIndexOf(','): the name is behind the last comma
SplitRest(rest, duration) ==
    LET At(commaIndex) ==
            IF commaIndex > 0
            THEN [attributes |-> trim(SubSeq(rest, 1, commaIndex - 1)),
                  name |-> trim(SubSeq(rest, commaIndex + 1, Len(rest))),
                  duration |-> duration]
            ELSE [attributes |-> rest, name |-> rest, duration |-> duration]
    IN At(lastIndexOf(rest, ","))

\* parseExtinfAttributes: EXTINF_REGEX /^#EXTINF:\s*(-?\d+)(?:\s+(.*))?$/ on a
\* line that starts with #EXTINF: ; d is where the digits start, e where
\* they end
parseExtinfAttributes(line) ==
    LET Groups(d, e, sign) ==
            IF e = d \/ ~(e > Len(line) \/ IsSpace(Ch(line, e)))
            THEN [attributes |-> "", name |-> "", duration |-> -1]
            ELSE SplitRest(SubSeq(line, SkipSpaces(line, e), Len(line)),
                           sign * parseInt(SubSeq(line, d, e - 1)))
        Number(d, sign) == Groups(d, d + DigitRun(line, d), sign)
        Sign(p) == IF Ch(line, p) = "-" THEN Number(p + 1, -1) ELSE Number(p, 1)
    IN Sign(SkipSpaces(line, 9))

\* extractAttribute(attributes, /key="([^"]*)"/i): the trimmed value, or
\* undefined when the attribute is absent or empty
extractAttribute(attributes, key) ==
    LET Value(value) == IF value = "" THEN undefined ELSE value
        Quote(n, close) ==
            IF n > 0 /\ close > 0
            THEN Value(trim(SubSeq(attributes, n + Len(key) + 2, close - 1)))
            ELSE undefined
        Key(n) == Quote(n, IF n > 0 THEN indexOfFrom(attributes, "\"", n + Len(key) + 2) ELSE 0)
    IN Key(indexOfFrom(toLowerCase(attributes), key \o "=\"", 1))

vodExtensions == {".mp4", ".mkv", ".avi", ".mov", ".wmv"}

\* variant: the /movie/ and /vod/ test comes before the series test
determineStreamTypeVodFirst(url, name) ==
    LET Lower(lowerUrl, lowerName) ==
            IF \E ext \in vodExtensions : endsWith(lowerUrl, ext) THEN "vod"
            ELSE IF includes(lowerUrl, "/movie/") \/ includes(lowerUrl, "/vod/") THEN "vod"
            ELSE IF \/ includes(lowerUrl, "/series/")
                    \/ includes(lowerName, "s0")
                    \/ includes(lowerName, "e0") THEN "series"
            ELSE "live"
    IN Lower(toLowerCase(url), toLowerCase(name))

determineStreamType(url, name) ==
    LET Lower(lowerUrl, lowerName) ==
            IF \E ext \in vodExtensions : endsWith(lowerUrl, ext) THEN "vod"
            ELSE IF \/ includes(lowerUrl, "/series/")
                    \/ includes(lowerName, "s0")
                    \/ includes(lowerName, "e0") THEN "series"
            ELSE IF includes(lowerUrl, "/movie/") \/ includes(lowerUrl, "/vod/") THEN "vod"
            ELSE "live"
    IN Lower(toLowerCase(url), toLowerCase(name))

\* parseChannel: the fields of the Channel that the id, the name and the
\* type of the record are made of
parseChannel(data) ==
    LET Typed(tvgName, streamType) ==
            [id |-> generateChannelId(data.name, data.url),
             name |-> IF data.name # "" THEN data.name
                      ELSE IF tvgName # undefined THEN tvgName
                      ELSE "Unknown Channel",
             url |-> data.url,
             tvgName |-> tvgName,
             isLive |-> streamType = "live",
             streamType |-> streamType]
    IN Typed(extractAttribute(data.attributes, "tvg-name"),
             determineStreamType(data.url, data.name))

\* currentData = null
NoData == [pending |-> FALSE, attributes |-> "", name |-> "", duration |-> -1]

IsUrlLine(line) ==
    startsWith(line, "http") \/ startsWith(line, "rtmp") \/ startsWith(line, "rtsp")

\* variant: currentData is not reset to null after a record is pushed
ParseLineKeepPending(line, st) ==
    IF line = "" THEN st
    ELSE IF startsWith(line, "#EXTM3U") THEN st
    ELSE IF startsWith(line, "#EXTINF:")
    THEN [st EXCEPT !.currentData =
             [pending |-> TRUE] @@ parseExtinfAttributes(line)]
    ELSE IF startsWith(line, "#") THEN st
    ELSE IF st.currentData.pending /\ IsUrlLine(line)
    THEN [currentData |-> st.currentData,
          channels |-> Append(st.channels,
                              parseChannel([st.currentData EXCEPT !.pending = TRUE]
                                              @@ [url |-> line]))]
    ELSE st

\* one turn of the loop of parseM3U on the trimmed line
ParseLine(line, st) ==
    IF line = "" THEN st
    ELSE IF startsWith(line, "#EXTM3U") THEN st
    ELSE IF startsWith(line, "#EXTINF:")
    THEN [st EXCEPT !.currentData =
             [pending |-> TRUE] @@ parseExtinfAttributes(line)]
    ELSE IF startsWith(line, "#") THEN st
    ELSE IF st.currentData.pending /\ IsUrlLine(line)
    THEN [currentData |-> NoData,
          channels |-> Append(st.channels,
                              parseChannel([st.currentData EXCEPT !.pending = TRUE]
                                              @@ [url |-> line]))]
    ELSE st

RECURSIVE ParseLines(_, _, _)
ParseLines(lines, i, st) ==
    IF i > Len(lines) THEN st
    ELSE ParseLines(lines, i + 1, ParseLine(trim(lines[i]), st))

\* the channels of the Playlist that parseM3U returns
parseM3U(lines) == ParseLines(lines, 1, [currentData |-> NoData, channels |-> <<>>]).channels

\* the lines of the playlists of the model: blank, header, directive, a line
\* that is none of these, three #EXTINF lines, four URL lines
M3uLines ==
    {"", "#EXTM3U", "#EXTVLCOPT:x", "junk",
     "#EXTINF:-1 tvg-name=\"TF1\",TF1",
     "#EXTINF:-1 tvg-name=\"TF1\",",
     "#EXTINF:-1 Lupin S01E02",
     "http://h/live/1.ts",
     "http://h/movie/1.mp4",
     "rtmp://h/series/2.mkv",
     " rtsp://h/vod/3 "}

Playlists == UNION {[1..n -> M3uLines] : n \in 0..MaxLines}

M3uInit ==
    /\ input \in Playlists
    /\ call = "none"
    /\ args = <<>>
    /\ result = <<>>

\* a playlist file is opened
ParseM3U ==
    /\ playlistTab = "m3u"
    /\ call = "none"
    /\ call' = "parseM3U"
    /\ args' = input
    /\ result' = parseM3U(input)
    /\ UNCHANGED <<input, hookVars>>

(***************************************************************************)
(* contentParser.ts selectBestQuality and deduplicator.ts                  *)
(* selectBestVariant.  Positions are counted from 1: position k of the     *)
(* model is index k - 1 of the source.                                     *)
(***************************************************************************)
qualityOrder == <<"4K", "FHD", "HD", "SD">>

\* qualityOrder.indexOf(quality): -1 when the list does not hold it ('auto')
indexOf(quality) ==
    First({n \in DOMAIN qualityOrder : qualityOrder[n] = quality}) - 1

\* quality ? qualityOrder.indexOf(quality) : 999
QualityIdx(quality) == IF quality = undefined THEN 999 ELSE indexOf(quality)

\* Array.prototype.sort is stable: position k goes behind the entries sorted
\* so far whose index is not larger
InsertSorted(sorted, k, variants) ==
    LET Behind(n) == SubSeq(sorted, 1, n) \o <<k>> \o SubSeq(sorted, n + 1, Len(sorted))
    IN Behind(Cardinality({e \in DOMAIN sorted :
                 QualityIdx(variants[sorted[e]].quality) <= QualityIdx(variants[k].quality)}))

RECURSIVE SortFrom(_, _, _)
SortFrom(sorted, k, variants) ==
    IF k > Len(variants) THEN sorted
    ELSE SortFrom(InsertSorted(sorted, k, variants), k + 1, variants)

\* variants.map(...).sort((a, b) => aIdx - bIdx): the positions of the
\* variants, by ascending index of their quality
sortedIndices(variants) == SortFrom(<<>>, 1, variants)

\* variant: the comparison of the loop is strict, idx > preferredIndex
selectBestQualityStrict(variants, preferredQuality) ==
    LET Pick(sorted) ==
            LET Hit(k) == IF k > 0 THEN sorted[k] ELSE IF sorted # <<>> THEN sorted[1] ELSE 1
            IN Hit(First({k \in DOMAIN sorted :
                            QualityIdx(variants[sorted[k]].quality) > indexOf(preferredQuality)}))
    IN Pick(sortedIndices(variants))

\* variant: the variants are scanned in the order of the group, unsorted
selectBestQualityUnsorted(variants, preferredQuality) ==
    LET Pick(sorted) ==
            LET Hit(k) == IF k > 0 THEN sorted[k] ELSE IF sorted # <<>> THEN sorted[1] ELSE 1
            IN Hit(First({k \in DOMAIN sorted :
                            QualityIdx(variants[sorted[k]].quality) >= indexOf(preferredQuality)}))
    IN Pick([k \in DOMAIN variants |-> k])

\* the first sorted entry with idx >= preferredIndex, else sortedIndices[0]
\* ?.index ?? 0
selectBestQuality(variants, preferredQuality) ==
    LET Pick(sorted) ==
            LET Hit(k) == IF k > 0 THEN sorted[k] ELSE IF sorted # <<>> THEN sorted[1] ELSE 1
            IN Hit(First({k \in DOMAIN sorted :
                            QualityIdx(variants[sorted[k]].quality) >= indexOf(preferredQuality)}))
    IN Pick(sortedIndices(variants))

\* variant: the fall-back of a movie or series ranks by the quality preferred
\* for channels
selectBestVariantByChannelQuality(content, preferences) ==
    LET variants == content.variants
        OrFirst(idx) == IF idx \in DOMAIN variants THEN variants[idx] ELSE variants[1]
        ByLanguage(prefLang) ==
            LET Found(k) ==
                    IF k > 0 THEN variants[k]
                    ELSE OrFirst(selectBestQuality(variants, preferences.channels.defaultQuality))
            IN Found(First({k \in DOMAIN variants : variants[k].language = prefLang}))
    IN IF Len(variants) = 1 THEN variants[1]
       ELSE IF content.type = "channel"
       THEN OrFirst(selectBestQuality(variants, preferences.channels.defaultQuality))
       ELSE IF content.type = "movie" THEN ByLanguage(preferences.movies.preferredLanguage)
       ELSE IF content.type = "series" THEN ByLanguage(preferences.series.preferredLanguage)
       ELSE variants[1]

selectBestVariant(content, preferences) ==
    LET variants == content.variants
        \* variants[idx] || variants[0]
        OrFirst(idx) == IF idx \in DOMAIN variants THEN variants[idx] ELSE variants[1]
        \* variants.find(v => v.language === prefLang), else the quality
        \* ranking with 'FHD'
        ByLanguage(prefLang) ==
            LET Found(k) ==
                    IF k > 0 THEN variants[k]
                    ELSE OrFirst(selectBestQuality(variants, "FHD"))
            IN Found(First({k \in DOMAIN variants : variants[k].language = prefLang}))
    IN IF Len(variants) = 1 THEN variants[1]
       ELSE IF content.type = "channel"
       THEN OrFirst(selectBestQuality(variants, preferences.channels.defaultQuality))
       ELSE IF content.type = "movie" THEN ByLanguage(preferences.movies.preferredLanguage)
       ELSE IF content.type = "series" THEN ByLanguage(preferences.series.preferredLanguage)
       ELSE variants[1]

\* the tags a variant gets from parseContentMetadata
Qualities == {"4K", "FHD", "HD", "SD", undefined}
Languages == {"VF", undefined}

\* the variants of a content: at least one, the id is the position in the group
VariantLists ==
    UNION {[1..n -> {[quality |-> q, language |-> l] : q \in Qualities, l \in Languages}]
              : n \in 1..MaxVariants}

Contents ==
    {[type |-> type,
      variants |-> [k \in DOMAIN vs |-> [id |-> k, quality |-> vs[k].quality,
                                         language |-> vs[k].language]]]
        : type \in {"channel", "movie", "series"}, vs \in VariantLists}

\* UserPreferences: the quality of channels, the language of movies and series
Preferences ==
    {[channels |-> [defaultQuality |-> q],
      movies |-> [preferredLanguage |-> ml],
      series |-> [preferredLanguage |-> sl]]
        : q \in {"4K", "FHD", "HD", "SD", "auto"},
          ml \in {"VF", "MULTI"}, sl \in {"VF", "MULTI"}}

SelectInit ==
    /\ input \in Contents
    /\ call = "none"
    /\ args = <<>>
    /\ result = <<>>

\* the player picks the variant to play
SelectBestVariant(preferences) ==
    /\ call = "none"
    /\ call' = "selectBestVariant"
    /\ args' = preferences
    /\ result' = selectBestVariant(input, preferences)
    /\ UNCHANGED <<input, hookVars>>

(***************************************************************************)
(* xtreamApi.ts: the client XtreamAPI, and handleXtream of SettingsContent *)
(* that drives it.  A value that may be null is a sequence of at most one  *)
(* element, <<>> being null.  A Channel is modelled by the fields id,      *)
(* name, url, group, isLive and streamType, a Playlist by its source and   *)
(* its channels.                                                           *)
(***************************************************************************)
\* what the form holds when it is submitted
credentials == [serverUrl |-> " h/", username |-> "u", password |-> "p"]

\* the constructor of XtreamAPI normalises the URL of the server
baseUrl ==
    LET Schemed(serverUrl) ==
            IF startsWith(serverUrl, "http") THEN serverUrl ELSE "http://" \o serverUrl
        Slashed(serverUrl) ==
            Schemed(IF endsWith(serverUrl, "/")
                    THEN SubSeq(serverUrl, 1, Len(serverUrl) - 1)
                    ELSE serverUrl)
    IN Slashed(trim(credentials.serverUrl))

\* encodeURIComponent leaves the letters of the user name and password alone
buildLiveStreamUrl(streamId, extension) ==
    baseUrl \o "/live/" \o credentials.username \o "/" \o credentials.password
            \o "/" \o ToString(streamId) \o "." \o extension

buildVodStreamUrl(streamId, extension) ==
    baseUrl \o "/movie/" \o credentials.username \o "/" \o credentials.password
            \o "/" \o ToString(streamId) \o "." \o extension

\* variant: the id is made of the category, not of the stream_id
liveStreamToChannelByGroup(stream, categoryName) ==
    [id |-> "xtream-live-" \o categoryName,
     name |-> stream.name,
     url |-> buildLiveStreamUrl(stream.stream_id, "m3u8"),
     group |-> categoryName,
     isLive |-> TRUE,
     streamType |-> "live"]

liveStreamToChannel(stream, categoryName) ==
    [id |-> "xtream-live-" \o ToString(stream.stream_id),
     name |-> stream.name,
     url |-> buildLiveStreamUrl(stream.stream_id, "m3u8"),
     group |-> categoryName,
     isLive |-> TRUE,
     streamType |-> "live"]

vodStreamToChannel(stream, categoryName) ==
    [id |-> "xtream-vod-" \o ToString(stream.stream_id),
     name |-> stream.name,
     url |-> buildVodStreamUrl(stream.stream_id, stream.container_extension),
     group |-> categoryName,
     isLive |-> FALSE,
     streamType |-> "vod"]

seriesToChannel(series_, categoryName) ==
    [id |-> "xtream-series-" \o ToString(series_.series_id),
     name |-> series_.name,
     url |-> "",
     group |-> categoryName,
     isLive |-> FALSE,
     streamType |-> "series"]

\* ---- what the server may answer ----
\* the base request: the request fails (ok = FALSE), or the body has no
\* user_info, or user_info.auth is 0, or it is 1
AuthAnswers ==
    {[ok |-> FALSE, user_info |-> FALSE, auth |-> 0],
     [ok |-> TRUE, user_info |-> FALSE, auth |-> 0],
     [ok |-> TRUE, user_info |-> TRUE, auth |-> 0],
     [ok |-> TRUE, user_info |-> TRUE, auth |-> 1]}

CategoryAnswers ==
    {[ok |-> FALSE, list |-> <<>>],
     [ok |-> TRUE, list |-> <<>>],
     [ok |-> TRUE, list |-> <<[category_id |-> "1", category_name |-> "News"]>>]}

\* the n-th stream of a class; the series all carry the same name
StreamOf(class, n) ==
    IF class = 1
    THEN [stream_id |-> n, name |-> IF n = 1 THEN "TF1" ELSE "Arte",
          category_id |-> ToString(n)]
    ELSE IF class = 2
    THEN [stream_id |-> n, name |-> IF n = 1 THEN "Heat" ELSE "Ran",
          category_id |-> ToString(n),
          container_extension |-> IF n = 1 THEN "mkv" ELSE "mp4"]
    ELSE [series_id |-> n, name |-> "Lupin", category_id |-> ToString(n)]

StreamAnswers(class) ==
    {[ok |-> FALSE, list |-> <<>>]}
        \cup {[ok |-> TRUE, list |-> [n \in 1..k |-> StreamOf(class, n)]] : k \in 0..MaxStreams}

\* the options of the two calls of loadFullPlaylist in the sources
LoadOptions ==
    {[includeLive |-> TRUE, includeVod |-> TRUE, includeSeries |-> TRUE],
     [includeLive |-> TRUE, includeVod |-> TRUE, includeSeries |-> FALSE]}

\* ---- loadFullPlaylist, one content class after the other ----
Included(options, class) ==
    IF class = 1 THEN options.includeLive
    ELSE IF class = 2 THEN options.includeVod
    ELSE options.includeSeries

CategoriesAction(class) ==
    <<"get_live_categories", "get_vod_categories", "get_series_categories">>[class]

StreamsAction(class) == <<"get_live_streams", "get_vod_streams", "get_series">>[class]

\* the key of a category in categoryMap
CategoryKey(class, category_id) == <<"", "vod-", "series-">>[class] \o category_id

\* categoryMap.get(...) || default; the pictograph in front of the group of a
\* film or a series is left out, and so is the accent of the default
CategoryName(categoryMap, class, category_id) ==
    IF CategoryKey(class, category_id) \in DOMAIN categoryMap
       /\ categoryMap[CategoryKey(class, category_id)] # ""
    THEN categoryMap[CategoryKey(class, category_id)]
    ELSE <<"Live TV", "Films", "Series">>[class]

ToChannel(class, stream, categoryName) ==
    IF class = 1 THEN liveStreamToChannel(stream, categoryName)
    ELSE IF class = 2 THEN vodStreamToChannel(stream, categoryName)
    ELSE seriesToChannel(stream, categoryName)

RECURSIVE SetCategories(_, _, _, _)
SetCategories(categoryMap, class, list, n) ==
    IF n > Len(list) THEN categoryMap
    ELSE SetCategories(Put(categoryMap, CategoryKey(class, list[n].category_id),
                           list[n].category_name),
                       class, list, n + 1)

NoLoad ==
    [pc |-> "idle", class |-> 0,
     options |-> [includeLive |-> FALSE, includeVod |-> FALSE, includeSeries |-> FALSE],
     channels |-> <<>>, categoryMap |-> EmptyMap, warned |-> {}]

\* the call goes on with the first class from `class` on that the options
\* include, or returns
RECURSIVE Enter(_, _)
Enter(l, class) ==
    IF class > 3 THEN [l EXCEPT !.pc = "returned", !.class = 0]
    ELSE IF Included(l.options, class) THEN [l EXCEPT !.pc = "categories", !.class = class]
    ELSE Enter(l, class + 1)

\* the request that a call which has come to l is waiting for
Request(l) ==
    IF l.pc = "categories" THEN CategoriesAction(l.class) ELSE StreamsAction(l.class)

Playlist(l) == [source |-> "xtream", channels |-> l.channels]

\* the catch block of the class at hand: console.warn, and on to the next class
Caught(l) == Enter([l EXCEPT !.warned = @ \cup {l.class}], l.class + 1)

\* loadFullPlaylist has come to l: it sends its next request, or it returns
\* and handleXtream adds the playlist
Continue(l) ==
    /\ load' = l
    /\ issued' = IF l.pc \in {"categories", "streams"}
                 THEN Append(issued, Request(l))
                 ELSE issued
    /\ IF l.pc = "returned"
       THEN /\ playlists' = Append(playlists, Playlist(l))
            /\ msg' = <<[ok |-> TRUE, text |-> ToString(Len(l.channels)) \o " chaines"]>>
            /\ loading' = FALSE
            /\ handler' = [handler EXCEPT !.pc = "done"]
       ELSE UNCHANGED <<msg, loading, playlists, handler>>

\* variant: a body with user_info is accepted whatever auth is
AuthErrorLenient(response) ==
    IF ~response.ok THEN <<"Erreur API Xtream">>
    ELSE IF ~response.user_info
    THEN <<"Authentification echouee. Verifiez vos identifiants.">>
    ELSE <<>>

\* what authenticate does with the answer to the base request: the error it
\* throws, if any (the accents of the message are left out)
AuthError(response) ==
    IF ~response.ok THEN <<"Erreur API Xtream">>
    ELSE IF ~response.user_info \/ response.auth # 1
    THEN <<"Authentification echouee. Verifiez vos identifiants.">>
    ELSE <<>>

isAuthenticated == authInfo # <<>>

SettingsInit ==
    /\ playlistTab = "m3u"
    /\ msg = <<>>
    /\ loading = FALSE
    /\ playlists = <<>>
    /\ handler = [pc |-> "idle", submits |-> 0, options |-> NoLoad.options]

\* the Xtream form is shown
XtreamTab ==
    /\ playlistTab = "xtream"
    /\ msg = <<>>
    /\ loading = FALSE
    /\ playlists = <<>>
    /\ handler = [pc |-> "idle", submits |-> 0, options |-> NoLoad.options]

\* getSeriesInfo not called yet: no status of a response, no body, no result
NoSeries ==
    [pc |-> "idle", seriesId |-> 0, elapsed |-> 0, timer |-> FALSE,
     status |-> "", data |-> <<>>, result |-> <<>>]

XtreamInit ==
    /\ authInfo = <<>>
    /\ issued = <<>>
    /\ load = NoLoad
    /\ series = NoSeries

otherVars == <<now, envn, epgCache, epgVars, chVars, dedupVars, lifeVars, lookupVars, appVars>>

\* the Xtream form is submitted (one submission at a time)
handleXtream(options) ==
    /\ playlistTab = "xtream"
    /\ handler.pc \in {"idle", "done"}
    /\ handler.submits < MaxSubmits
    /\ msg' = <<>>
    /\ loading' = TRUE
    /\ handler' = [pc |-> "test", submits |-> handler.submits + 1, options |-> options]
    /\ issued' = Append(issued, "authenticate")
    /\ authInfo' = <<>>
    /\ load' = NoLoad
    /\ UNCHANGED <<playlistTab, playlists, series, otherVars>>

\* testXtreamConnection settles: on a failure handleXtream shows the message
\* and stops; on a success it makes a new client and calls loadFullPlaylist,
\* which authenticates first
TestSettles(response) ==
    /\ handler.pc = "test"
    /\ IF AuthError(response) # <<>>
       THEN /\ msg' = <<[ok |-> FALSE, text |-> AuthError(response)[1]]>>
            /\ loading' = FALSE
            /\ handler' = [handler EXCEPT !.pc = "done"]
            /\ UNCHANGED <<issued, load>>
       ELSE /\ handler' = [handler EXCEPT !.pc = "load"]
            /\ load' = [NoLoad EXCEPT !.pc = "authenticate", !.options = handler.options]
            /\ issued' = Append(issued, "authenticate")
            /\ UNCHANGED <<msg, loading>>
    /\ UNCHANGED <<playlistTab, playlists, authInfo, series, otherVars>>

\* the base request of loadFullPlaylist settles: authenticate throws and
\* handleXtream catches, or authInfo is set and the first class is loaded
AuthSettles(response) ==
    /\ load.pc = "authenticate"
    /\ IF AuthError(response) # <<>>
       THEN /\ load' = [load EXCEPT !.pc = "thrown"]
            /\ msg' = <<[ok |-> FALSE, text |-> "Error: " \o AuthError(response)[1]]>>
            /\ loading' = FALSE
            /\ handler' = [handler EXCEPT !.pc = "done"]
            /\ UNCHANGED <<authInfo, issued, playlists>>
       ELSE /\ authInfo' = <<response>>
            /\ Continue(Enter(load, 1))
    /\ UNCHANGED <<playlistTab, series, otherVars>>

\* the categories of the class at hand arrive, or the request fails and the
\* class is given up
CategoriesSettle(response) ==
    /\ load.pc = "categories"
    /\ IF response.ok
       THEN Continue([load EXCEPT !.pc = "streams",
                                  !.categoryMap = SetCategories(@, load.class, response.list, 1)])
       ELSE Continue(Caught(load))
    /\ UNCHANGED <<playlistTab, authInfo, series, otherVars>>

RECURSIVE PushStreams(_, _, _, _, _)
PushStreams(channels_, categoryMap, class, list, n) ==
    IF n > Len(list) THEN channels_
    ELSE PushStreams(Append(channels_,
                            ToChannel(class, list[n],
                                      CategoryName(categoryMap, class, list[n].category_id))),
                     categoryMap, class, list, n + 1)

\* variant: no try / catch around the class, a failed request ends the call
StreamsSettleAbort(class, response) ==
    /\ load.pc = "streams"
    /\ load.class = class
    /\ IF response.ok
       THEN Continue(Enter([load EXCEPT !.channels =
                                 PushStreams(@, load.categoryMap, load.class, response.list, 1)],
                           load.class + 1))
       ELSE /\ load' = [load EXCEPT !.pc = "thrown"]
            /\ msg' = <<[ok |-> FALSE, text |-> "Error: Erreur HTTP"]>>
            /\ loading' = FALSE
            /\ handler' = [handler EXCEPT !.pc = "done"]
            /\ UNCHANGED <<issued, playlists>>
    /\ UNCHANGED <<playlistTab, authInfo, series, otherVars>>

\* the streams of the class at hand arrive and are pushed, or the request
\* fails and the class is given up
StreamsSettle(class, response) ==
    /\ load.pc = "streams"
    /\ load.class = class
    /\ IF response.ok
       THEN Continue(Enter([load EXCEPT !.channels =
                                 PushStreams(@, load.categoryMap, load.class, response.list, 1)],
                           load.class + 1))
       ELSE Continue(Caught(load))
    /\ UNCHANGED <<playlistTab, authInfo, series, otherVars>>

(***************************************************************************)
(* XtreamAPI.getSeriesInfo.  Time is counted in steps of TimerStep ms      *)
(* while the request is out.                                               *)
(***************************************************************************)
SERIES_TIMEOUT == 30000
TimerStep == 10000

buildSeriesStreamUrl(streamId, extension) ==
    baseUrl \o "/series/" \o credentials.username \o "/" \o credentials.password
            \o "/" \o ToString(streamId) \o "." \o extension

\* ---- the bodies the server may send ----
\* the k-th episode of a season: the second one has no title and no extension
EpisodeOf(seasonNum, k) ==
    [id |-> 10 * seasonNum + k, episode_num |-> k,
     title |-> IF k = 1 THEN "Pilot" ELSE "",
     container_extension |-> IF k = 1 THEN "mkv" ELSE ""]

\* data.episodes: the seasons in keys, each with its first episodes
EpisodeMaps ==
    UNION {{[seasonNum \in keys |-> [k \in 1..count[seasonNum] |-> EpisodeOf(seasonNum, k)]] :
               count \in [keys -> 0..MaxEpisodes]} :
              keys \in SUBSET (1..MaxSeasons)}

\* data.seasons: absent or empty, or a list; a list need not be in order and
\* may name a season that has no episodes
SeasonLists ==
    {<<>>,
     <<[season_number |-> 1, name |-> "Part 1"]>>,
     <<[season_number |-> 2, name |-> ""], [season_number |-> 1, name |-> "Part 1"]>>,
     <<[season_number |-> MaxSeasons + 1, name |-> ""]>>}

\* a body: unreadable as JSON, or null, or an object with or without info,
\* with or without episodes; mappable is FALSE when the values of
\* data.episodes are no arrays
SeriesBodies ==
    {[parsable |-> FALSE, isNull |-> FALSE, info |-> <<>>, episodes |-> <<>>,
      seasons |-> <<>>, mappable |-> TRUE],
     [parsable |-> TRUE, isNull |-> TRUE, info |-> <<>>, episodes |-> <<>>,
      seasons |-> <<>>, mappable |-> TRUE]}
    \cup [parsable : {TRUE}, isNull : {FALSE},
          info : {<<>>, <<[name |-> ""]>>, <<[name |-> "Lupin"]>>},
          episodes : {<<>>}, seasons : {<<>>}, mappable : {TRUE}]
    \cup [parsable : {TRUE}, isNull : {FALSE},
          info : {<<>>, <<[name |-> "Lupin"]>>},
          episodes : {<<m>> : m \in EpisodeMaps}, seasons : SeasonLists,
          mappable : BOOLEAN]

\* ---- the result ----
PLACEHOLDER == "Serie inconnue"

\* the result of the catch block (the accent of the name is left out)
DegradedSeries(seriesId) ==
    [seriesId |-> seriesId, name |-> PLACEHOLDER, seasons |-> <<>>, totalEpisodes |-> 0]

\* data?.info?.name || 'Série inconnue'
InfoName(data) ==
    IF data.info # <<>> /\ data.info[1].name # "" THEN data.info[1].name ELSE PLACEHOLDER

ToEpisode(ep) ==
    [id |-> "ep-" \o ToString(ep.id),
     episodeNum |-> ep.episode_num,
     title |-> IF ep.title # "" THEN ep.title ELSE "Episode " \o ToString(ep.episode_num),
     url |-> buildSeriesStreamUrl(ep.id, IF ep.container_extension # ""
                                         THEN ep.container_extension ELSE "mp4")]

\* Object.keys(episodesBySeason).map(Number).sort((a, b) => a - b)
RECURSIVE sortNumbers(_)
sortNumbers(S) ==
    IF S = {} THEN <<>>
    ELSE LET Least(n) == <<n>> \o sortNumbers(S \ {n})
         IN Least(CHOOSE n \in S : \A m \in S : n <= m)

seasonNumbers(data) ==
    IF data.seasons # <<>>
    THEN [n \in DOMAIN data.seasons |-> data.seasons[n].season_number]
    ELSE sortNumbers(DOMAIN data.episodes[1])

\* data.seasons?.find(s => s.season_number === seasonNum)?.name || `Saison n`
SeasonName(data, seasonNum) ==
    LET Found(n) ==
            IF n > 0 /\ data.seasons[n].name # "" THEN data.seasons[n].name
            ELSE "Saison " \o ToString(seasonNum)
    IN Found(First({n \in DOMAIN data.seasons : data.seasons[n].season_number = seasonNum}))

\* one turn of the loop over seasonNumbers
ToSeason(data, seasonNum) ==
    LET Pushed(episodes) ==
            [seasonNumber |-> seasonNum,
             name |-> SeasonName(data, seasonNum),
             episodeCount |-> Len(episodes),
             episodes |-> episodes]
        Mapped(seasonEpisodes) == Pushed([k \in DOMAIN seasonEpisodes |-> ToEpisode(seasonEpisodes[k])])
    IN Mapped(IF seasonNum \in DOMAIN data.episodes[1] THEN data.episodes[1][seasonNum] ELSE <<>>)

RECURSIVE Sum(_, _)
\* seasons.reduce((sum, s) => sum + s.episodes.length, 0)
Sum(seasons, n) == IF n > Len(seasons) THEN 0 ELSE Len(seasons[n].episodes) + Sum(seasons, n + 1)

\* what getSeriesInfo makes of a body that could be read
SeriesDetails(seriesId, data) ==
    IF data.isNull \/ data.episodes = <<>>
    THEN [seriesId |-> seriesId, name |-> InfoName(data), seasons |-> <<>>,
          totalEpisodes |-> 0]
    ELSE IF /\ ~data.mappable
            /\ \E n \in DOMAIN seasonNumbers(data) :
                  seasonNumbers(data)[n] \in DOMAIN data.episodes[1]
    THEN DegradedSeries(seriesId)
    ELSE LET Built(seasons) ==
                 [seriesId |-> seriesId, name |-> InfoName(data), seasons |-> seasons,
                  totalEpisodes |-> Sum(seasons, 1)]
         IN Built([n \in DOMAIN seasonNumbers(data) |->
                      ToSeason(data, seasonNumbers(data)[n])])

seriesRest == <<playlistTab, msg, loading, playlists, handler, authInfo, load, otherVars>>

\* getSeriesInfo is called: the request goes out and the timer is set
getSeriesInfo(seriesId) ==
    /\ series.pc = "idle"
    /\ series' = [NoSeries EXCEPT !.pc = "fetch", !.seriesId = seriesId, !.timer = TRUE]
    /\ issued' = Append(issued, "get_series_info")
    /\ UNCHANGED seriesRest

\* time passes while the request is out and the timer is not due
SeriesWait ==
    /\ series.pc = "fetch"
    /\ series.elapsed + TimerStep <= SERIES_TIMEOUT
    /\ series' = [series EXCEPT !.elapsed = @ + TimerStep]
    /\ UNCHANGED <<issued, seriesRest>>

\* the timer fires: controller.abort() rejects the fetch, the catch block
\* answers
SeriesTimeout ==
    /\ series.pc = "fetch"
    /\ series.timer
    /\ series.elapsed >= SERIES_TIMEOUT
    /\ series' = [series EXCEPT !.pc = "resolved", !.timer = FALSE, !.status = "aborted",
                                !.result = <<DegradedSeries(series.seriesId)>>]
    /\ UNCHANGED <<issued, seriesRest>>

\* variant: an HTTP error is thrown on to the caller
SeriesRespondsThrowing(status) ==
    /\ series.pc = "fetch"
    /\ series' = IF status = "ok"
                 THEN [series EXCEPT !.pc = "json", !.timer = FALSE, !.status = status]
                 ELSE IF status = "http error"
                 THEN [series EXCEPT !.pc = "thrown", !.timer = FALSE, !.status = status]
                 ELSE [series EXCEPT !.pc = "resolved", !.timer = FALSE, !.status = status,
                                     !.result = <<DegradedSeries(series.seriesId)>>]
    /\ UNCHANGED <<issued, seriesRest>>

\* the fetch settles: with a response, whose status is ok or not, or with a
\* network failure; the timer is cleared
SeriesResponds(status) ==
    /\ series.pc = "fetch"
    /\ series' = IF status = "ok"
                 THEN [series EXCEPT !.pc = "json", !.timer = FALSE, !.status = status]
                 ELSE [series EXCEPT !.pc = "resolved", !.timer = FALSE, !.status = status,
                                     !.result = <<DegradedSeries(series.seriesId)>>]
    /\ UNCHANGED <<issued, seriesRest>>

\* the body has arrived: response.json() rejects, or the result is built
SeriesBody(data) ==
    /\ series.pc = "json"
    /\ series' = [series EXCEPT !.pc = "resolved", !.data = <<data>>,
                                !.result = IF data.parsable
                                           THEN <<SeriesDetails(series.seriesId, data)>>
                                           ELSE <<DegradedSeries(series.seriesId)>>]
    /\ UNCHANGED <<issued, seriesRest>>

(***************************************************************************)
(* OMDBClient (part_001): the awards cache and the request queue.  A task  *)
(* is the closure enqueue() builds around run(); between its two awaits    *)
(* (fetch, res.json) run() touches no shared state, so the model lets it   *)
(* settle in one step.                                                     *)
(***************************************************************************)
concurrency == 8

\* key = type-title-year, the year left out when there is none (0)
OmdbKey(type, title, year) ==
    type \o "-" \o title \o "-" \o (IF year = 0 THEN "" ELSE ToString(year))

OmdbKeys == {OmdbKey("movie", "Inception", 2010), OmdbKey("series", "Lupin", 0)}

\* how run() ends: with Awards, with Awards 'N/A' or none, with a status
\* that is not ok, with fetch rejecting, with a body that is no JSON
OmdbOutcomes == {"awards", "none", "notOk", "networkError", "malformed"}

\* the value run() writes into the cache, "absent" when it writes none
Cached(outcome) ==
    IF outcome = "awards" THEN "Won 6 Oscars."
    ELSE IF outcome \in {"none", "notOk"} THEN "null"
    ELSE "absent"

OmdbState == [queue |-> queue, active |-> active, running |-> omdbRunning,
              fetches |-> omdbFetches]

\* task() up to `await fn()`: active += 1, and run() up to `await fetch(url)`
task(S, key) ==
    [S EXCEPT !.active = @ + 1,
              !.running[key] = @ + 1,
              !.fetches[key] = @ + 1]

\* variant: next() without the test of the concurrency
nextUnbounded(S) ==
    IF S.queue = <<>> THEN S
    ELSE task([S EXCEPT !.queue = Tail(@)], Head(S.queue).key)

\* OMDBClient.next
next(S) ==
    IF S.active >= concurrency THEN S
    ELSE IF S.queue = <<>> THEN S
    ELSE task([S EXCEPT !.queue = Tail(@)], Head(S.queue).key)

\* OMDBClient.enqueue: this.queue.push(task); this.next()
enqueue(S, call_, key) == next([S EXCEPT !.queue = Append(@, [call |-> call_, key |-> key])])

\* the finally block of a task: this.active -= 1; this.next()
finally(S, key) == next([S EXCEPT !.active = @ - 1, !.running[key] = @ - 1])

OmdbCommit(S) ==
    /\ queue' = S.queue
    /\ active' = S.active
    /\ omdbRunning' = S.running
    /\ omdbFetches' = S.fetches

OmdbInit ==
    /\ awardsCache = [k \in OmdbKeys |-> "absent"]
    /\ queue = <<>>
    /\ active = 0
    /\ omdbRunning = [k \in OmdbKeys |-> 0]
    /\ lookupCalls = 0
    /\ omdbFetches = [k \in OmdbKeys |-> 0]

TmdbInit ==
    /\ searchCache = [k \in OmdbKeys |-> "absent"]
    /\ tmdbRunning = [k \in OmdbKeys |-> 0]
    /\ tmdbFetches = [k \in OmdbKeys |-> 0]

omdbRest == <<now, envn, epgCache, epgVars, chVars, dedupVars, settingsVars, xtreamVars,
              lifeVars, appVars>>

\* variant: getAwards does not look into the cache
getAwardsUncached(key) ==
    /\ lookupCalls < MaxCalls
    /\ lookupCalls' = lookupCalls + 1
    /\ OmdbCommit(enqueue(OmdbState, lookupCalls + 1, key))
    /\ UNCHANGED <<awardsCache, tmdbVars, omdbRest>>

\* OMDBClient.getAwards(title, year, type), up to the promise it returns
getAwards(key) ==
    /\ lookupCalls < MaxCalls
    /\ lookupCalls' = lookupCalls + 1
    /\ IF awardsCache[key] # "absent"
       THEN UNCHANGED <<queue, active, omdbRunning, omdbFetches>>
       ELSE OmdbCommit(enqueue(OmdbState, lookupCalls + 1, key))
    /\ UNCHANGED <<awardsCache, tmdbVars, omdbRest>>

\* run() of a task in flight settles, and the task ends with its finally block
RunSettles(key, outcome) ==
    /\ omdbRunning[key] > 0
    /\ awardsCache' = IF Cached(outcome) = "absent" THEN awardsCache
                      ELSE [awardsCache EXCEPT ![key] = Cached(outcome)]
    /\ OmdbCommit(finally(OmdbState, key))
    /\ UNCHANGED <<lookupCalls, tmdbVars, omdbRest>>

(***************************************************************************)
(* TMDBClient (deduplicator.ts:364-443): the searches and their cache.     *)
(***************************************************************************)
\* how a search ends: with results, with none, with a status that is not ok,
\* with fetch rejecting, with a body that is no JSON
TmdbOutcomes == {"found", "noResults", "notOk", "networkError", "malformed"}

\* the value a search writes into the cache, "absent" when it writes none
Searched(outcome) ==
    IF outcome = "found" THEN "27205"
    ELSE IF outcome \in {"noResults", "notOk"} THEN "null"
    ELSE "absent"

\* a search whose key is not in the cache, up to `await fetch(url)`
Fetch(key) ==
    /\ tmdbRunning' = [tmdbRunning EXCEPT ![key] = @ + 1]
    /\ tmdbFetches' = [tmdbFetches EXCEPT ![key] = @ + 1]

\* TMDBClient.searchSeries(name, year), up to its first await or its return
searchSeries(name, year) ==
    /\ lookupCalls < MaxCalls
    /\ lookupCalls' = lookupCalls + 1
    /\ IF searchCache[OmdbKey("series", name, year)] # "absent"
       THEN UNCHANGED <<tmdbRunning, tmdbFetches>>
       ELSE Fetch(OmdbKey("series", name, year))
    /\ UNCHANGED <<searchCache, omdbVars, omdbRest>>

\* TMDBClient.searchMovie(name, year), up to its first await or its return
searchMovie(name, year) ==
    /\ lookupCalls < MaxCalls
    /\ lookupCalls' = lookupCalls + 1
    /\ IF searchCache[OmdbKey("movie", name, year)] # "absent"
       THEN UNCHANGED <<tmdbRunning, tmdbFetches>>
       ELSE Fetch(OmdbKey("movie", name, year))
    /\ UNCHANGED <<searchCache, omdbVars, omdbRest>>

\* a search in flight goes on after its awaits, to its return or its throw
SearchSettles(key, outcome) ==
    /\ tmdbRunning[key] > 0
    /\ tmdbRunning' = [tmdbRunning EXCEPT ![key] = @ - 1]
    /\ searchCache' = IF Searched(outcome) = "absent" THEN searchCache
                      ELSE [searchCache EXCEPT ![key] = Searched(outcome)]
    /\ UNCHANGED <<lookupCalls, tmdbFetches, omdbVars, omdbRest>>

(***************************************************************************)
(* App: the stored playlists and the onboarding.  A playlist is a record   *)
(* of its id and its channels; the user imports the playlists of Imports,  *)
(* each at most once.  A setTimeout callback is kept with the playlist its *)
(* closure holds until it runs.                                            *)
(***************************************************************************)
Imports == {[id |-> "a", channels |-> <<1, 2>>], [id |-> "b", channels |-> <<3>>]}

AppInit ==
    /\ appPlaylists = <<>>
    /\ userPreferences = [onboardingCompleted |-> FALSE, chosen |-> FALSE]
    /\ showOnboarding = FALSE
    /\ pendingPlaylist = <<>>
    /\ appLoading = FALSE
    /\ timeouts = <<>>
    /\ imported = <<>>

appRest == <<now, epgCache, epgVars, chVars, dedupVars, settingsVars, xtreamVars, lifeVars,
             lookupVars>>

RECURSIVE flatMap(_, _)
flatMap(lists, n) ==
    IF n > Len(lists) THEN <<>> ELSE lists[n].channels \o flatMap(lists, n + 1)

\* useMemo(() => playlists.flatMap(p => p.channels), [playlists])
allChannels == flatMap(appPlaylists, 1)

\* the render gate: the Onboarding is returned in place of the application
OnboardingShown == showOnboarding /\ pendingPlaylist # <<>>

\* App.handleAddPlaylist(playlist), called by Settings
handleAddPlaylist(playlist) ==
    /\ ~OnboardingShown
    /\ envn < MaxEnv
    /\ playlist \notin Range(imported)
    /\ envn' = envn + 1
    /\ imported' = Append(imported, playlist)
    /\ IF Len(appPlaylists) = 0 /\ ~userPreferences.onboardingCompleted
       THEN /\ pendingPlaylist' = <<playlist>>
            /\ showOnboarding' = TRUE
            /\ UNCHANGED <<appLoading, timeouts>>
       ELSE /\ appLoading' = TRUE
            /\ timeouts' = Append(timeouts, [playlist |-> playlist, pending |-> FALSE])
            /\ UNCHANGED <<pendingPlaylist, showOnboarding>>
    /\ UNCHANGED <<appPlaylists, userPreferences, appRest>>

\* the tail of handleOnboardingComplete and of handleOnboardingSkip
AfterOnboarding ==
    IF pendingPlaylist # <<>>
    THEN Append(timeouts, [playlist |-> pendingPlaylist[1], pending |-> TRUE])
    ELSE timeouts

\* App.handleOnboardingComplete(newPreferences), called by Onboarding
handleOnboardingComplete ==
    /\ OnboardingShown
    /\ userPreferences' = [onboardingCompleted |-> TRUE, chosen |-> TRUE]
    /\ showOnboarding' = FALSE
    /\ timeouts' = AfterOnboarding
    /\ appLoading' = IF pendingPlaylist # <<>> THEN TRUE ELSE appLoading
    /\ UNCHANGED <<envn, appPlaylists, pendingPlaylist, imported, appRest>>

\* App.handleOnboardingSkip(), called by Onboarding
handleOnboardingSkip ==
    /\ OnboardingShown
    /\ userPreferences' = [userPreferences EXCEPT !.onboardingCompleted = TRUE]
    /\ showOnboarding' = FALSE
    /\ timeouts' = AfterOnboarding
    /\ appLoading' = IF pendingPlaylist # <<>> THEN TRUE ELSE appLoading
    /\ UNCHANGED <<envn, appPlaylists, pendingPlaylist, imported, appRest>>

\* App.handleResetOnboarding(), the button "Reconfigurer" of Settings
handleResetOnboarding ==
    /\ ~OnboardingShown
    /\ envn < MaxEnv
    /\ envn' = envn + 1
    /\ userPreferences' = [onboardingCompleted |-> FALSE, chosen |-> FALSE]
    /\ IF Len(allChannels) > 0
       THEN /\ pendingPlaylist' = <<[id |-> "temp", channels |-> allChannels]>>
            /\ showOnboarding' = TRUE
       ELSE UNCHANGED <<pendingPlaylist, showOnboarding>>
    /\ UNCHANGED <<appPlaylists, appLoading, timeouts, imported, appRest>>

\* a callback handed to setTimeout runs
Timeout(k) ==
    /\ k \in DOMAIN timeouts
    /\ timeouts' = RemoveAt(timeouts, k)
    /\ appPlaylists' = Append(appPlaylists, timeouts[k].playlist)
    /\ pendingPlaylist' = IF timeouts[k].pending THEN <<>> ELSE pendingPlaylist
    /\ appLoading' = FALSE
    /\ UNCHANGED <<envn, userPreferences, showOnboarding, imported, appRest>>

(***************************************************************************)
(* Spec: the batch fetcher useEPG, with the clock advancing from one       *)
(* periodic refresh to the next.                                           *)
(***************************************************************************)
Init == EpgInit /\ ChInit /\ SettingsInit /\ XtreamInit /\ OmdbInit /\ TmdbInit /\ AppInit /\ DedupIdle

Next ==
    \/ \E list \in ChannelLists : FetchEffect(list)
    \/ \E p \in Slots : \E c \in XtreamLive : Respond(p, c)
    \/ \E p \in Slots : Resume(p)
    \/ refreshEpg
    \/ PeriodicRefresh
    \/ Elapse

Spec == Init /\ [][Next]_vars

(***************************************************************************)
(* SpecTTL: both hooks on one channel and the shared cache, minute by      *)
(* minute.                                                                 *)
(***************************************************************************)
NextTTL ==
    \/ FetchEffect(ListOne)
    \/ \E p \in Slots : Respond(p, 1)
    \/ refreshEpg
    \/ PeriodicRefresh
    \/ \E c \in {0, 1} : ChEffect(c)
    \/ ChInterval
    \/ \E k \in 1..MaxChRequests : ChRespond(k)
    \/ Tick

SpecTTL == Init /\ [][NextTTL]_vars

(***************************************************************************)
(* SpecOmdb: the calls of getAwards and the responses, in every order.     *)
(* SpecOmdbFair: the same, every request in flight ends at some time.      *)
(***************************************************************************)
NextOmdb ==
    \/ \E key \in OmdbKeys : getAwards(key)
    \/ \E key \in OmdbKeys : \E outcome \in OmdbOutcomes : RunSettles(key, outcome)

SpecOmdb == Init /\ [][NextOmdb]_vars

SpecOmdbFair ==
    SpecOmdb /\ WF_vars(\E key \in OmdbKeys : \E outcome \in OmdbOutcomes : RunSettles(key, outcome))

(***************************************************************************)
(* SpecLookup: the lookups of both clients and their responses, in every   *)
(* order: awards of a movie, search of that movie and of a series.         *)
(***************************************************************************)
NextLookup ==
    \/ getAwards(OmdbKey("movie", "Inception", 2010))
    \/ \E outcome \in OmdbOutcomes : RunSettles(OmdbKey("movie", "Inception", 2010), outcome)
    \/ searchSeries("Lupin", 0)
    \/ searchMovie("Inception", 2010)
    \/ \E key \in OmdbKeys : \E outcome \in TmdbOutcomes : SearchSettles(key, outcome)

SpecLookup == Init /\ [][NextLookup]_vars

(***************************************************************************)
(* SpecChannel: useChannelEPG while the selection goes from one channel to *)
(* another, minute by minute.                                              *)
(***************************************************************************)
NextChannel ==
    \/ \E c \in {0, 1, 2, M3uChan} : ChEffect(c)
    \/ ChInterval
    \/ \E k \in 1..MaxChRequests : ChRespond(k)
    \/ Tick

SpecChannel == Init /\ [][NextChannel]_vars

(***************************************************************************)
(* SpecRefresh: useEPG from mount to unmount, minute by minute, with the   *)
(* renders that replace its inputs.                                        *)
(***************************************************************************)
NextRefresh ==
    \/ \E list \in {ListOne, ListHead} : FetchEffect(list)
    \/ \E p \in Slots : \E c \in XtreamLive : Respond(p, c)
    \/ PeriodicRefresh
    \/ Disable
    \/ Unmount
    \/ Tick

SpecRefresh == Init /\ [][NextRefresh]_vars

(***************************************************************************)
(* SpecDedup: the deduplicator applied to every list of at most MaxRecords *)
(* records, in every order.                                                *)
(***************************************************************************)
InitDedup == EpgInit /\ ChInit /\ SettingsInit /\ XtreamInit /\ OmdbInit /\ TmdbInit /\ AppInit /\ DedupInit

NextDedup ==
    \/ DeduplicateChannels
    \/ DeduplicateReordered
    \/ DeduplicateMovies
    \/ DeduplicateSeries

SpecDedup == InitDedup /\ [][NextDedup]_vars

(***************************************************************************)
(* SpecSelect: selectBestVariant applied to every content of at most       *)
(* MaxVariants variants, under every preference.                           *)
(***************************************************************************)
InitSelect == EpgInit /\ ChInit /\ SettingsInit /\ XtreamInit /\ OmdbInit /\ TmdbInit /\ AppInit /\ SelectInit

NextSelect == \E preferences \in Preferences : SelectBestVariant(preferences)

SpecSelect == InitSelect /\ [][NextSelect]_vars

(***************************************************************************)
(* SpecM3u: parseM3U applied to every playlist of at most MaxLines lines.  *)
(***************************************************************************)
InitM3u == EpgInit /\ ChInit /\ SettingsInit /\ XtreamInit /\ OmdbInit /\ TmdbInit /\ AppInit /\ M3uInit

NextM3u == ParseM3U

SpecM3u == InitM3u /\ [][NextM3u]_vars

(***************************************************************************)
(* SpecXtream: the Xtream form submitted at most MaxSubmits times, the     *)
(* server answering each request in every way.                             *)
(***************************************************************************)
InitXtream == EpgInit /\ ChInit /\ DedupIdle /\ XtreamTab /\ XtreamInit /\ OmdbInit /\ TmdbInit /\ AppInit

NextXtream ==
    \/ \E options \in LoadOptions : handleXtream(options)
    \/ \E response \in AuthAnswers : TestSettles(response)
    \/ \E response \in AuthAnswers : AuthSettles(response)
    \/ \E response \in CategoryAnswers : CategoriesSettle(response)
    \/ \E class \in 1..3 : \E response \in StreamAnswers(class) : StreamsSettle(class, response)

SpecXtream == InitXtream /\ [][NextXtream]_vars

(***************************************************************************)
(* SpecExtract: parseContentMetadata applied to every name of at most      *)
(* MaxTags tags.                                                           *)
(***************************************************************************)
InitExtract == EpgInit /\ ChInit /\ SettingsInit /\ XtreamInit /\ OmdbInit /\ TmdbInit /\ AppInit /\ ExtractInit

NextExtract == ParseContentMetadata

SpecExtract == InitExtract /\ [][NextExtract]_vars

(***************************************************************************)
(* SpecSeries: one call of getSeriesInfo, the server answering in every    *)
(* way or not at all.                                                      *)
(***************************************************************************)
InitSeries == InitXtream

NextSeries ==
    \/ \E seriesId \in 1..MaxSeasons : getSeriesInfo(seriesId)
    \/ SeriesWait
    \/ SeriesTimeout
    \/ \E status \in {"ok", "http error", "network failure"} : SeriesResponds(status)
    \/ \E data \in SeriesBodies : SeriesBody(data)

SpecSeries == InitSeries /\ [][NextSeries]_vars

(***************************************************************************)
(* SpecOnboarding: the user imports playlists, goes through the onboarding *)
(* or skips it, and asks for it again; the timeouts run in any order.      *)
(***************************************************************************)
NextOnboarding ==
    \/ \E playlist \in Imports : handleAddPlaylist(playlist)
    \/ handleOnboardingComplete
    \/ handleOnboardingSkip
    \/ handleResetOnboarding
    \/ \E k \in 1..MaxEnv : Timeout(k)

SpecOnboarding == Init /\ [][NextOnboarding]_vars

(***************************************************************************)
(* SpecIngest: one of the two forms is shown and used; a playlist file of  *)
(* at most MaxLines lines, or an Xtream account.                           *)
(***************************************************************************)
InitIngest ==
    /\ EpgInit /\ ChInit /\ XtreamInit /\ OmdbInit /\ TmdbInit /\ AppInit
    /\ \/ SettingsInit /\ M3uInit
       \/ XtreamTab /\ DedupIdle

NextIngest == ParseM3U \/ NextXtream

SpecIngest == InitIngest /\ [][NextIngest]_vars

----------------------------------------------------------------------------
(***************************************************************************)
(* Properties of the EPG cache manager.                                    *)
(***************************************************************************)
\* the cache holds an entry for stream k that is younger than 5 minutes
WithinTTL(k) == k \in DOMAIN epgCache /\ now - epgCache[k].fetchedAt < 5

\* a get_short_epg request for channel c is issued in this step
PassIssues(c) == \E p \in Slots : c \in passes'[p].pending /\ c \notin passes[p].pending
ChIssues == Len(chRequests') > Len(chRequests)

\* the fetch effect looks channel 1 up in this step (SpecTTL: the list is <<1>>)
PassLooksUp ==
    /\ FetchEffect(ListOne)
    /\ ~(isFetchingRef /\ CurrentIds(ListOne) = channelIdsRef)
    /\ 1 \notin fetchedRef

\* useChannelEPG looks channel 1 up in this step
ChLooksUp == ChEffect(1) \/ (ChInterval /\ chChannel = 1)

\* C1: a lookup of a stream id whose cache entry is younger than 5 minutes
\* returns the cached programs and issues no request; a lookup at an age of
\* 5 minutes or more (or without entry) issues a get_short_epg request, and the
\* answer replaces the entry with fetchedAt = the time of the answer.
C1_CacheTTL ==
    [][ /\ PassLooksUp /\ WithinTTL(1) =>
              /\ ~PassIssues(1)
              /\ (Len(epgCache[1].programs) > 0 => /\ 1 \in DOMAIN epgData'
                                                   /\ epgData'[1] = epgCache[1].programs)
        /\ PassLooksUp /\ ~WithinTTL(1) => PassIssues(1)
        /\ ChLooksUp /\ WithinTTL(1) =>
              /\ ~ChIssues
              /\ currentProgram' = FindCurrent(epgCache[1].programs, now)
              /\ nextProgram' = FindNext(epgCache[1].programs, now)
        /\ ChLooksUp /\ ~WithinTTL(1) => ChIssues /\ chRequests'[Len(chRequests')] = 1
        /\ PassIssues(1) \/ ChIssues => ~WithinTTL(1)
        /\ \A p \in Slots : Respond(p, 1) => epgCache'[1].fetchedAt = now
        /\ \A k \in 1..MaxChRequests : ChRespond(k) => epgCache'[1].fetchedAt = now
      ]_vars

\* C1 witness: an entry fetched 5 minutes ago or more is being refetched
C1_Witness ==
    /\ 1 \in DOMAIN epgCache
    /\ now - epgCache[1].fetchedAt >= 5
    /\ chRequests # <<>>

----------------------------------------------------------------------------
\* the first program of a list whose interval, closed or half-open, holds t
FirstIn(programs, t, closed) ==
    LET idx == {n \in DOMAIN programs :
                   /\ programs[n].startTimestamp <= t
                   /\ IF closed THEN t <= programs[n].endTimestamp
                                ELSE t < programs[n].endTimestamp}
    IN IF idx = {} THEN NoProg
       ELSE programs[CHOOSE n \in idx : \A m \in idx : n <= m]

StoredPrograms(c) == IF c \in DOMAIN epgData THEN epgData[c] ELSE <<>>

AllChannels == 1..(NumLive + 2)

\* C7 as claimed: getCurrentProgram returns the first stored program with
\* start <= now < end (half-open), none without entry or match.
C7_HalfOpen ==
    \A c \in AllChannels : getCurrentProgram(c) = FirstIn(StoredPrograms(c), now, FALSE)

\* C7 amended: getCurrentProgram returns the first stored program with
\* start <= now <= end (closed interval), none when the channel has no entry
\* or no program holds now; useChannelEPG computes its currentProgram the same
\* way from the programs it has just read or fetched.
C7_ClosedInterval ==
    /\ [](\A c \in AllChannels : getCurrentProgram(c) = FirstIn(StoredPrograms(c), now, TRUE))
    /\ [][ /\ ChLooksUp /\ WithinTTL(1) =>
                 currentProgram' = FirstIn(epgCache[1].programs, now, TRUE)
           /\ \A k \in 1..MaxChRequests : ChRespond(k) =>
                 currentProgram' = FirstIn(epgCache'[1].programs, now, TRUE)
         ]_vars

\* C7 witness: a program that ends now is returned as the current one
C7_Witness ==
    /\ getCurrentProgram(1) # NoProg
    /\ getCurrentProgram(1).endTimestamp = now

----------------------------------------------------------------------------
\* a pass leaves its slot in this step
PassEnds(p) == Active(passes[p]) /\ ~Active(passes'[p])

\* a render starts a pass in this step; the pass takes the first free slot
Starts(p) == (\E list \in ChannelLists : FetchEffect(list)) /\ p = FreeSlot

\* pass p finishes a fetchEpgBatch call (a chunk) in this step
ChunkEnds(p) ==
    /\ passes'[p].pc \in {"idle", "pause"}
    /\ \/ passes[p].pc = "fetch"
       \/ Resume(p)
       \/ Starts(p)

\* some cache entry or consumer-visible entry is written in this step
Commits ==
    \/ epgData' # epgData
    \/ \E k \in DOMAIN epgCache' : k \notin DOMAIN epgCache \/ epgCache'[k] # epgCache[k]

----------------------------------------------------------------------------
\* C3: while a full pass is in flight for a set of live ids, no second pass is
\* started for the same set, so no channel of an unchanged list has two
\* requests in flight.
C3_InFlightGuard ==
    \A p, q \in InFlight : p # q => passes[p].ids # passes[q].ids

----------------------------------------------------------------------------
RECURSIVE SumPending(_)
SumPending(S) ==
    IF S = {} THEN 0
    ELSE LET p == CHOOSE x \in S : TRUE
         IN Cardinality(passes[p].pending) + SumPending(S \ {p})

\* C4 as claimed: the fetcher never has more than batchSize requests in flight.
C4_GlobalFanOut == SumPending(Slots) <= batchSize

\* C4 amended: each pass has at most batchSize requests in flight, all of the
\* micro-batch at its current offset, inside the current chunk of at most
\* chunkSize channels; nothing is in flight while the pass pauses between chunks.
C4_PerPassFanOut ==
    \A p \in InFlight :
        LET ps == passes[p] IN
        /\ Cardinality(ps.pending) <= batchSize
        /\ \A c \in ps.pending :
              \E n \in (ps.i + ps.j + 1)..(ps.i + ps.j + batchSize) :
                 /\ n <= Len(ps.list)
                 /\ n <= ps.i + chunkSize
                 /\ ps.list[n] = c
        /\ ps.pc = "pause" => ps.pending = {}

\* C4 witness: the second micro-batch of a chunk is in flight
C4_Witness == \E p \in InFlight : passes[p].j > 0 /\ passes[p].pending # {}

----------------------------------------------------------------------------
\* a refresh that has something to refresh
RefreshStep == refreshEpg \/ (PeriodicRefresh /\ CurrentIds(channels) # {})

\* no channel of the pass was skipped as already fetched or served from the cache
FetchesAll(ps) == ps.ids = Range(ps.list) /\ ps.hits = {}

RefetchAfterRefresh == \A p \in InFlight : passes[p].origin # "no" => FetchesAll(passes[p])

RefetchWhenAlone == \A p \in InFlight : passes[p].alone => FetchesAll(passes[p])

----------------------------------------------------------------------------
\* C6: when the request of one channel fails, its program list is empty, the
\* other requests of the micro-batch stay in flight, the results already
\* received are kept and committed, and the pass goes on: it ends only when
\* no channel after the micro-batch needs a request, and it never stalls.
C6_FailureIsolation ==
    [][ \A p \in Slots : \A c \in XtreamLive : \A o \in FailOutcomes : \A l \in Listings :
           RespondWith(p, c, o, l) =>
              LET ps == passes[p]
                  rest == ps.pending \ {c}
                  kept == {d \in DOMAIN ps.results : Len(ps.results[d]) > 0}
              IN /\ epgCache'[c].programs = <<>>
                 /\ rest # {} => /\ passes'[p].pending = rest
                                 /\ \A d \in DOMAIN ps.results :
                                       passes'[p].results[d] = ps.results[d]
                 /\ rest = {} => /\ kept \subseteq fetchedRef'
                                 /\ \A d \in kept :
                                       \/ /\ d \in DOMAIN epgData'
                                          /\ epgData'[d] = ps.results[d]
                                       \/ /\ Active(passes'[p])
                                          /\ d \in DOMAIN passes'[p].allResults
                                          /\ passes'[p].allResults[d] = ps.results[d]
                 /\ c \notin fetchedRef' \ fetchedRef
                 /\ ~Active(passes'[p]) =>
                       \A n \in DOMAIN ps.list :
                          n > ps.i + ps.j + batchSize =>
                             LookupKind(epgCache', ps.list[n], now) # "miss"
                 /\ Active(passes'[p]) =>
                       passes'[p].pc = "pause" \/ passes'[p].pending # {}
      ]_vars

\* C6 witness: a pass is over, one channel of its batch failed and has an
\* empty list, another one is committed
C6_Witness ==
    /\ InFlight = {}
    /\ \E c, d \in Range(ListHead) :
          /\ c \in DOMAIN epgCache /\ epgCache[c].programs = <<>>
          /\ c \notin DOMAIN epgData
          /\ d \in DOMAIN epgData /\ d \in fetchedRef

----------------------------------------------------------------------------
RECURSIVE SumVariants(_)
SumVariants(groups) ==
    IF groups = <<>> THEN 0
    ELSE Len(Head(groups).variants) + SumVariants(Tail(groups))

\* the records of a list that a deduplicate function has to keep
Matching(list, kind) ==
    {k \in DOMAIN list : \/ kind = "channels" /\ list[k].isLive
                         \/ kind = "movies" /\ ~list[k].isLive /\ list[k].streamType = "vod"
                         \/ kind = "series" /\ ~list[k].isLive /\ list[k].streamType = "series"}

\* the places (group, variant) where a record id appears in a result
PlacesOf(groups, id) ==
    {pl \in (DOMAIN groups) \X (1..MaxRecords) :
        /\ pl[2] \in DOMAIN groups[pl[1]].variants
        /\ groups[pl[1]].variants[pl[2]].id = id}

\* C8: for every list and each content type, the variants of the groups
\* returned add up to the number of records of the matching type: each
\* matching record is a variant exactly once, no other record is a variant.
C8_Completeness ==
    call # "none" =>
        /\ SumVariants(result) = Cardinality(Matching(args, call))
        /\ \A k \in DOMAIN args :
              Cardinality(PlacesOf(result, args[k].id))
                 = (IF k \in Matching(args, call) THEN 1 ELSE 0)

\* C8 witness: two of three records are movies and share one group
C8_Witness ==
    /\ call = "movies"
    /\ Len(args) = 3
    /\ Cardinality(Matching(args, "movies")) = 2
    /\ Len(result) = 1

----------------------------------------------------------------------------
PositionOf(list, id) == CHOOSE k \in DOMAIN list : list[k].id = id

\* C9: every group returned has at least one variant, and its variants are in
\* the order in which their records stand in the list passed.
C9_VariantOrder ==
    \A n \in DOMAIN result :
        LET variants == result[n].variants IN
        /\ Len(variants) >= 1
        /\ \A a, b \in DOMAIN variants :
              a < b => PositionOf(args, variants[a].id) < PositionOf(args, variants[b].id)

\* C9 witness: the list was handed over in another order, and a group holds
\* a later record of the input before an earlier one
C9_Witness ==
    \E n \in DOMAIN result :
        /\ Len(result[n].variants) = 2
        /\ result[n].variants[1].id > result[n].variants[2].id

----------------------------------------------------------------------------
\* same extracted clean name, whatever the case, and same extracted country
SameContent(a, b) ==
    /\ toLowerCase(MetadataOf[a.name].cleanName) = toLowerCase(MetadataOf[b.name].cleanName)
    /\ MetadataOf[a.name].country = MetadataOf[b.name].country

\* the ids of the variants, group by group
Partition(groups) ==
    {{groups[n].variants[k].id : k \in DOMAIN groups[n].variants} : n \in DOMAIN groups}

\* C10: two live records with the same clean name (case-insensitively) and
\* the same country are variants of one group, and the partition of the
\* records into groups is the same in whatever order the list is passed.
C10_KeyStability ==
    call = "channels" =>
        /\ \A a, b \in DOMAIN args :
              args[a].isLive /\ args[b].isLive /\ SameContent(args[a], args[b]) =>
                 \E g \in Partition(result) : args[a].id \in g /\ args[b].id \in g
        /\ Partition(result) = Partition(deduplicateChannels(input))

\* C10 witness: a reordered list, a group with two records whose names differ
\* by the case, and a second group
C10_Witness ==
    /\ call = "channels"
    /\ args # input
    /\ Len(result) = 2
    /\ \E a, b \in DOMAIN args :
          /\ MetadataOf[args[a].name].cleanName # MetadataOf[args[b].name].cleanName
          /\ \E g \in Partition(result) : args[a].id \in g /\ args[b].id \in g

(***************************************************************************)
(* Variant selection (SpecSelect).                                         *)
(***************************************************************************)
Selected == call = "selectBestVariant"

\* a channel group of two or more variants, the preferred tier one of the
\* fixed order
ChannelCase ==
    /\ Selected
    /\ input.type = "channel"
    /\ Len(input.variants) >= 2
    /\ args.channels.defaultQuality \in Range(qualityOrder)

VariantIdx(k) == QualityIdx(input.variants[k].quality)
PreferredIdx == indexOf(args.channels.defaultQuality)

\* the variants whose tier is the preferred one or a higher one / a lower one
\* (a variant without a tier counts as lower than every tier)
AtOrAbove == {k \in DOMAIN input.variants : VariantIdx(k) <= PreferredIdx}
AtOrBelow == {k \in DOMAIN input.variants : VariantIdx(k) >= PreferredIdx}

\* the first variant, in the order of the group, of the highest tier among
\* the positions `among`
BestOf(among) ==
    CHOOSE k \in among :
        \A j \in among : VariantIdx(k) < VariantIdx(j) \/ (VariantIdx(k) = VariantIdx(j) /\ k <= j)

C12_Fallback ==
    /\ Selected /\ input.type = "channel"
        /\ args.channels.defaultQuality \in Range(qualityOrder) /\ AtOrAbove = {} =>
            result = input.variants[BestOf(DOMAIN input.variants)]
    /\ Selected /\ input.type = "channel" /\ args.channels.defaultQuality = "FHD"
        /\ {input.variants[k].quality : k \in DOMAIN input.variants} = {"HD", "SD"} =>
            result.quality = "HD"

\* FHD preferred, the group is SD then HD: the HD variant is selected
C12_Witness ==
    /\ Selected /\ input.type = "channel"
    /\ args.channels.defaultQuality = "FHD"
    /\ Len(input.variants) = 2
    /\ input.variants[1].quality = "SD"
    /\ input.variants[2].quality = "HD"
    /\ result = input.variants[2]

\* the language preferred for the type of the content
PreferredLanguage ==
    IF input.type = "movie" THEN args.movies.preferredLanguage
    ELSE args.series.preferredLanguage

LanguageMatches ==
    {k \in DOMAIN input.variants : input.variants[k].language = PreferredLanguage}

\* C13: for a movie or series group of two or more variants, the first
\* variant whose language is the preferred one is selected; when there is
\* none, the selected variant is the one a channel group of the same variants
\* gets with FHD preferred, whatever quality the user prefers for channels.
C13_LanguageFirst ==
    Selected /\ input.type \in {"movie", "series"} /\ Len(input.variants) >= 2 =>
        IF LanguageMatches # {}
        THEN result = input.variants[First(LanguageMatches)]
        ELSE result = selectBestVariant([input EXCEPT !.type = "channel"],
                                        [args EXCEPT !.channels.defaultQuality = "FHD"])

\* a movie without a variant in the preferred language, SD preferred for
\* channels, an SD and an FHD variant: the FHD variant is selected
C13_Witness ==
    /\ Selected /\ input.type = "movie"
    /\ LanguageMatches = {}
    /\ args.channels.defaultQuality = "SD"
    /\ {input.variants[k].quality : k \in DOMAIN input.variants} = {"SD", "FHD"}
    /\ result.quality = "FHD"

(***************************************************************************)
(* M3U ingestion (SpecM3u).                                                *)
(***************************************************************************)
Parsed == call = "parseM3U"

LineOf(k) == trim(args[k])
IsExtinf(k) == startsWith(LineOf(k), "#EXTINF:")
IsUrl(k) == IsUrlLine(LineOf(k))
\* a blank line, a directive or a comment
IsSkipped(k) == LineOf(k) = "" \/ (startsWith(LineOf(k), "#") /\ ~IsExtinf(k))

\* the elements of a set of numbers in ascending order
Ascending(S) ==
    CHOOSE seq \in [1..Cardinality(S) -> S] :
        \A a, b \in 1..Cardinality(S) : a < b => seq[a] < seq[b]

\* the URL lines that close an #EXTINF line with nothing but blank lines,
\* directives and comments in between
ClosingSkipped ==
    {j \in DOMAIN args :
        /\ IsUrl(j)
        /\ \E i \in 1..(j - 1) :
              IsExtinf(i) /\ \A k \in (i + 1)..(j - 1) : IsSkipped(k)}

\* the URL lines that close an #EXTINF line with no other #EXTINF line and
\* no other URL line in between
ClosingPending ==
    {j \in DOMAIN args :
        /\ IsUrl(j)
        /\ \E i \in 1..(j - 1) :
              IsExtinf(i) /\ \A k \in (i + 1)..(j - 1) : ~IsExtinf(k) /\ ~IsUrl(k)}

RecordsAre(closing) ==
    /\ Len(result) = Cardinality(closing)
    /\ \A n \in DOMAIN result : result[n].url = LineOf(Ascending(closing)[n])

CountBound ==
    /\ Len(result) <= Cardinality({k \in DOMAIN args : IsExtinf(k)})
    /\ Len(result) <= Cardinality({k \in DOMAIN args : IsUrl(k)})

\* C14 as claimed: parseM3U emits a record exactly for each #EXTINF line that
\* is followed by a URL line with only blank lines, directives and comments
\* in between, and never more records than #EXTINF lines or URL lines.
C14_ExactPairs == Parsed => RecordsAre(ClosingSkipped) /\ CountBound

\* C14 amended: parseM3U emits a record exactly for each #EXTINF line that is
\* followed by a URL line before the next #EXTINF line, whatever the lines in
\* between are, and never more records than #EXTINF lines or URL lines.
C14_PendingPairs == Parsed => RecordsAre(ClosingPending) /\ CountBound

\* an #EXTINF line, a line that is no directive and no URL, then a URL line:
\* one record
C14_Witness ==
    /\ Parsed
    /\ Len(args) = 3
    /\ IsExtinf(1) /\ LineOf(2) = "junk" /\ IsUrl(3)
    /\ Len(result) = 1

\* the records of the ingestion at hand: of the playlist file that was parsed,
\* or of the Xtream load as far as it has come
Records == IF Parsed THEN result ELSE load.channels

\* the #EXTINF line that record n of the parsed file goes back to, and the
\* display name on it
ExtinfOf(n) ==
    CHOOSE i \in 1..Ascending(ClosingPending)[n] :
        /\ IsExtinf(i)
        /\ \A k \in (i + 1)..(Ascending(ClosingPending)[n] - 1) : ~IsExtinf(k)

DisplayName(n) == parseExtinfAttributes(LineOf(ExtinfOf(n))).name

HasVodExtension(url) ==
    \E ext \in {".mp4", ".mkv", ".avi", ".mov", ".wmv"} : endsWith(toLowerCase(url), ext)

SeriesMark(url, name) ==
    \/ includes(toLowerCase(url), "/series/")
    \/ includes(toLowerCase(name), "s0")
    \/ includes(toLowerCase(name), "e0")

VodMark(url) == includes(toLowerCase(url), "/movie/") \/ includes(toLowerCase(url), "/vod/")

\* C15: every record of an ingestion, from a playlist file or from an Xtream
\* account, has isLive = TRUE exactly when its streamType is live; and a record
\* of a playlist file is vod when its URL ends in a VOD extension, else series
\* when the URL contains /series/ or the name contains s0 or e0, else vod when
\* the URL contains /movie/ or /vod/, else live (letter case ignored).
C15_LiveFlag ==
    /\ \A n \in DOMAIN Records : Records[n].isLive <=> (Records[n].streamType = "live")
    /\ Parsed =>
         \A n \in DOMAIN result :
            result[n].streamType =
                IF HasVodExtension(result[n].url) THEN "vod"
                ELSE IF SeriesMark(result[n].url, DisplayName(n)) THEN "series"
                ELSE IF VodMark(result[n].url) THEN "vod"
                ELSE "live"

\* a file record classified as a series by its name although its URL
\* contains /vod/
C15_Witness ==
    /\ Parsed
    /\ \E n \in DOMAIN result :
          /\ result[n].streamType = "series"
          /\ VodMark(result[n].url)
          /\ ~result[n].isLive

\* the records of every Xtream ingestion so far, finished or under way
RECURSIVE Concat(_, _)
Concat(lists, n) == IF n > Len(lists) THEN <<>> ELSE lists[n].channels \o Concat(lists, n + 1)

XtreamRecords == Concat(playlists, 1) \o (IF load.pc = "returned" THEN <<>> ELSE load.channels)

\* the records of class streamType in a list of records, in order
OfClass(records, streamType) == SelectSeq(records, LAMBDA r : r.streamType = streamType)

\* C16 as claimed: any two ingested records with the same name and the same
\* url have the same id.
C16_NameUrl ==
    /\ Parsed =>
         \A a, b \in DOMAIN result :
            result[a].name = result[b].name /\ result[a].url = result[b].url
                => result[a].id = result[b].id
    /\ \A a, b \in DOMAIN XtreamRecords :
          XtreamRecords[a].name = XtreamRecords[b].name
              /\ XtreamRecords[a].url = XtreamRecords[b].url
              => XtreamRecords[a].id = XtreamRecords[b].id

\* C16 amended: two records of a playlist file with the same display name on
\* their #EXTINF lines and the same url have the same id; two live or film
\* records of an Xtream account with the same url have the same id; and two
\* ingestions of the same account give the k-th record of each class the same
\* id.
C16_SourceId ==
    /\ Parsed =>
         \A a, b \in DOMAIN result :
            DisplayName(a) = DisplayName(b) /\ result[a].url = result[b].url
                => result[a].id = result[b].id
    /\ \A a, b \in DOMAIN XtreamRecords :
          /\ XtreamRecords[a].streamType # "series"
          /\ XtreamRecords[b].streamType # "series"
          /\ XtreamRecords[a].url = XtreamRecords[b].url
          => XtreamRecords[a].id = XtreamRecords[b].id
    /\ \A p, q \in DOMAIN playlists : \A streamType \in {"live", "vod", "series"} :
          \A k \in DOMAIN OfClass(playlists[p].channels, streamType)
                     \cap DOMAIN OfClass(playlists[q].channels, streamType) :
             OfClass(playlists[p].channels, streamType)[k].id
                 = OfClass(playlists[q].channels, streamType)[k].id

\* a playlist file with two records of the same display name and url, and
\* hence the same id
C16_Witness ==
    /\ Parsed
    /\ \E a, b \in DOMAIN result :
          /\ a < b
          /\ DisplayName(a) = DisplayName(b)
          /\ result[a].url = result[b].url
          /\ result[a].id = result[b].id

(***************************************************************************)
(* The Xtream client (SpecXtream).                                         *)
(***************************************************************************)
StreamType(class) == <<"live", "vod", "series">>[class]

IsPrefix(s, r) == Len(s) <= Len(r) /\ SubSeq(r, 1, Len(s)) = s

Loading == load.pc \in {"categories", "streams"}

\* the records that a stream list of k streams of the class at hand yields
Converted(k) ==
    [n \in 1..k |->
        ToChannel(load.class, StreamOf(load.class, n),
                  CategoryName(load.categoryMap, load.class,
                               StreamOf(load.class, n).category_id))]

\* a class is given up in this step
GivesUp == load.class \in load'.warned

\* C17: once loadFullPlaylist is authenticated, a failed categories or streams
\* request of a class does not end the call: the call goes on or returns,
\* the records pushed so far are kept, the class that failed has no record,
\* a class whose requests both succeed has all its records pushed, no error
\* is raised, and the playlist handed over has exactly the records pushed,
\* whose number is the count shown.
C17_ClassIsolation ==
    /\ [](load.pc = "thrown" => ~isAuthenticated)
    /\ [](\A n \in DOMAIN load.channels :
             \A class \in load.warned : load.channels[n].streamType # StreamType(class))
    /\ [][Loading =>
            /\ load'.pc \in {"categories", "streams", "returned"}
            /\ IsPrefix(load.channels, load'.channels)
            /\ GivesUp => load'.channels = load.channels
            /\ load.pc = "streams" /\ ~GivesUp =>
                  \E k \in 0..MaxStreams : load'.channels = load.channels \o Converted(k)
            /\ load'.pc = "returned" =>
                  /\ playlists' = Append(playlists, [source |-> "xtream",
                                                     channels |-> load'.channels])
                  /\ msg' = <<[ok |-> TRUE,
                               text |-> ToString(Len(load'.channels)) \o " chaines"]>>]_vars

\* a playlist was handed over that holds films although the live class was
\* given up
C17_Witness ==
    /\ load.pc = "returned"
    /\ 1 \in load.warned
    /\ 2 \notin load.warned
    /\ \E n \in DOMAIN load.channels : load.channels[n].streamType = "vod"
    /\ playlists # <<>>

\* the message shown is that of a failure
Refused(m) == m # <<>> /\ ~m[1].ok /\ m[1].text # ""

\* C18: the client is authenticated only by a response with user_info.auth
\* = 1; the authentication of testXtreamConnection and that of
\* loadFullPlaylist either succeed or end the submission with the message of
\* the error, and then no request is sent, no playlist is added, and the
\* client is not authenticated.
C18_AuthTotal ==
    /\ [](isAuthenticated =>
             authInfo[1].ok /\ authInfo[1].user_info /\ authInfo[1].auth = 1)
    /\ [](load.pc \in {"categories", "streams", "returned"} => isAuthenticated)
    /\ [](load.pc = "thrown" => ~isAuthenticated /\ load.channels = <<>>)
    /\ [][handler.pc = "test" =>
            \/ handler'.pc = "load" /\ load'.pc = "authenticate"
            \/ /\ handler'.pc = "done"
               /\ Refused(msg')
               /\ issued' = issued
               /\ playlists' = playlists
               /\ ~isAuthenticated']_vars
    /\ [][load.pc = "authenticate" =>
            \/ isAuthenticated'
            \/ /\ load'.pc = "thrown"
               /\ handler'.pc = "done"
               /\ Refused(msg')
               /\ issued' = issued
               /\ playlists' = playlists
               /\ ~isAuthenticated']_vars

\* the second submission is refused by loadFullPlaylist after the first one
\* added a playlist
C18_Witness ==
    /\ load.pc = "thrown"
    /\ Refused(msg)
    /\ ~isAuthenticated
    /\ Len(playlists) = 1
    /\ issued[Len(issued)] = "authenticate"

(***************************************************************************)
(* getSeriesInfo (SpecSeries).                                             *)
(***************************************************************************)
Resolved == series.pc = "resolved"

\* the request failed, was aborted by the timer, or brought a body that
\* cannot be read or whose episodes cannot be gone through
SeriesFailed ==
    \/ series.status \in {"http error", "network failure", "aborted"}
    \/ /\ series.data # <<>>
       /\ \/ ~series.data[1].parsable
          \/ /\ ~series.data[1].mappable
             /\ \E n \in DOMAIN seasonNumbers(series.data[1]) :
                   seasonNumbers(series.data[1])[n] \in DOMAIN series.data[1].episodes[1]

RECURSIVE CountSum(_, _)
CountSum(seasons, n) ==
    IF n = 0 THEN 0 ELSE seasons[n].episodeCount + CountSum(seasons, n - 1)

\* C19: getSeriesInfo never ends with an error; when the request fails, is
\* aborted by the timer after 30 seconds, or brings a body that cannot be
\* used, it resolves to seasons = [], totalEpisodes = 0 and the placeholder
\* name; a body without episodes gives no seasons and no episodes either; and
\* totalEpisodes is always the sum of the episode counts of the seasons.
C19_NeverRaises ==
    /\ series.pc \in {"idle", "fetch", "json", "resolved"}
    /\ series.status = "aborted" => series.elapsed = 30000
    /\ Resolved =>
         /\ Len(series.result) = 1
         /\ series.result[1].seriesId = series.seriesId
         /\ SeriesFailed =>
               /\ series.result[1].seasons = <<>>
               /\ series.result[1].totalEpisodes = 0
               /\ series.result[1].name = "Serie inconnue"
         /\ series.data # <<>> /\ series.data[1].episodes = <<>> =>
               /\ series.result[1].seasons = <<>>
               /\ series.result[1].totalEpisodes = 0
         /\ series.result[1].totalEpisodes
               = CountSum(series.result[1].seasons, Len(series.result[1].seasons))
         /\ \A n \in DOMAIN series.result[1].seasons :
               series.result[1].seasons[n].episodeCount
                   = Len(series.result[1].seasons[n].episodes)

\* the timer has aborted the request and the call has resolved to the
\* degraded result
C19_Witness ==
    /\ Resolved
    /\ series.status = "aborted"
    /\ series.result = <<[seriesId |-> series.seriesId, name |-> "Serie inconnue",
                          seasons |-> <<>>, totalEpisodes |-> 0]>>

(***************************************************************************)
(* The extractor (SpecExtract).                                            *)
(***************************************************************************)
Extracted == call = "parseContentMetadata"

\* the match of the first pattern of a table that matches the name
TableMatch(table, name) ==
    LET Of(n) == IF n = 0 THEN NoMatch ELSE exec(table[n].pattern, name)
    IN Of(FirstMatching(table, name))

\* where in the name each step has found what it reports
CountryMatch(name) ==
    IF CountryPrefix(name) > 0 /\ toUpperCase(SubSeq(name, 1, 2)) \in COUNTRIES
    THEN Match(1, CountryPrefix(name))
    ELSE TableMatch(COUNTRY_PATTERNS, name)

QualityMatch(name) == TableMatch(QUALITY_PATTERNS, name)
LanguageMatch(name) == TableMatch(LANGUAGE_PATTERNS, name)
YearMatch(name) == YEAR_PATTERN(name)

SeasonMatch(name) ==
    IF SEASON_EPISODE_PATTERN(name).start > 0 THEN SEASON_EPISODE_PATTERN(name)
    ELSE SEASON_PATTERN(name)

StepMatches(name) ==
    <<CountryMatch(name), QualityMatch(name), LanguageMatch(name), YearMatch(name),
      SeasonMatch(name)>>

\* two matches share a character of the name
Overlap(a, b) ==
    /\ a.start > 0
    /\ b.start > 0
    /\ a.start < b.start + b.len
    /\ b.start < a.start + a.len

\* C20 as claimed: what a step has matched is out of reach of the later
\* steps, so no two steps report a match on the same part of the name.
C20_NoSharedToken ==
    Extracted =>
        \A a, b \in 1..5 : a < b => ~Overlap(StepMatches(args)[a], StepMatches(args)[b])

\* C20 amended: every step looks at the name as it was handed over: it
\* reports a value exactly when its own pattern matches that name, whatever
\* the earlier steps have matched; the matches of the quality step and of the
\* language step never share a part of the name.
C20_OriginalName ==
    Extracted =>
        /\ (result.country # undefined) <=> (CountryMatch(args).start > 0)
        /\ (result.quality # undefined) <=> (QualityMatch(args).start > 0)
        /\ (result.language # undefined) <=> (LanguageMatch(args).start > 0)
        /\ (result.year # -1) <=> (YearMatch(args).start > 0)
        /\ (result.season # -1) <=> (SeasonMatch(args).start > 0)
        /\ ~Overlap(QualityMatch(args), LanguageMatch(args))

\* a name in which the year step and the season step report the same digits,
\* and one word is both the country and the language
C20_Witness ==
    /\ Extracted
    /\ Overlap(YearMatch(args), SeasonMatch(args))
    /\ Overlap(CountryMatch(args), LanguageMatch(args))
    /\ result.year = 2010
    /\ result.season = 20
    /\ result.country = "FR"
    /\ result.language = "VFF"

\* C21: a name followed by a parenthesized year and a bracketed quality tag
\* comes back as the bare name, with the year and the quality.
C21_CleanTitle ==
    (Extracted /\ args = "Inception (2010) [FHD]") =>
        /\ result.cleanName = "Inception"
        /\ result.year = 2010
        /\ result.quality = "FHD"

\* C22: two live records named with the code and with the spelled-out form
\* of the same country come out of deduplicateChannels as one content with
\* two variants.
C22_SpellingsMerge ==
    ( /\ call = "channels"
      /\ Len(args) = 2
      /\ {args[1].name, args[2].name} = {"Le Journal FR", "Le Journal FRANCE"} ) =>
        /\ Len(result) = 1
        /\ Len(result[1].variants) = 2

\* what a second extraction, from the cleaned name, returns
Again == parseContentMetadata(result.cleanName)

\* C23: extracting again from the cleaned name detects no country, quality,
\* language, year or season and returns the same cleaned name.
C23_Idempotent ==
    Extracted =>
        /\ Again.country = undefined
        /\ Again.quality = undefined
        /\ Again.language = undefined
        /\ Again.year = -1
        /\ Again.season = -1
        /\ Again.cleanName = result.cleanName

(***************************************************************************)
(* The lifecycle of the periodic refresh (SpecRefresh).                    *)
(***************************************************************************)
\* the lifecycle of the periodic refresh effect is over and none has begun
Ended == ~mounted \/ ~enabled

\* the interval the running lifecycle has set
OwnTimer == [due |-> timerDue, channels |-> channels]

\* a step in which an interval fires
Fires == timers' # timers /\ envn' = envn /\ mounted' = mounted

\* a step that empties the cache, or the set of fetched ids
ClearsCache == epgCache # EmptyMap /\ epgCache' = EmptyMap
ClearsFetched == fetchedRef # {} /\ fetchedRef' = {}

\* C24: an interval is set only for the running lifecycle: none is left once
\* the hook is unmounted or disabled, and the interval of a lifecycle that a
\* render has replaced is gone; so the interval that fires is the running
\* lifecycle's, and the cache and the fetched set are never cleared by a
\* timer after the end.
C24_RefreshCancelled ==
    /\ [](timers \subseteq {OwnTimer})
    /\ [](Ended => timers = {})
    /\ [][Fires => (~Ended /\ OwnTimer \in timers /\ now = timerDue)]_vars
    /\ [][Ended => (~ClearsCache /\ ~ClearsFetched)]_vars

\* the hook was unmounted with a filled cache and the time at which its
\* interval would have fired has passed
C24_Witness ==
    /\ ~mounted
    /\ now > REFRESH_INTERVAL
    /\ epgCache # EmptyMap
    /\ fetchedRef # {}

(***************************************************************************)
(* The representative of a group (SpecDedup).                              *)
(***************************************************************************)
\* the content type a deduplicate function writes into its results
TypeOf(kind) ==
    IF kind = "channels" THEN "channel" ELSE IF kind = "movies" THEN "movie" ELSE "series"

\* the content key of the k-th record of the list passed
KeyAt(k) == getContentKey(args[k].name, TypeOf(call))

\* the first record of the list passed that has the key of the n-th content
FirstOf(n) ==
    LET key == KeyAt(PositionOf(args, result[n].variants[1].id))
        Same == {k \in Matching(args, call) : KeyAt(k) = key}
    IN args[CHOOSE k \in Same : \A j \in Same : k <= j]

C26_ShownForSelected ==
    \/ currentProgram = NoProg /\ nextProgram = NoProg
    \/ shownFor = chChannel

(***************************************************************************)
(* The request queue of OMDBClient (SpecOmdb, SpecOmdbFair).               *)
(***************************************************************************)
\* at most `concurrency` requests are active, the counter is the number of
\* tasks in flight and never negative, and tasks wait only while `concurrency`
\* requests are active
QueueBounds ==
    /\ active <= concurrency
    /\ active >= 0
    /\ active = omdbRunning[OmdbKey("movie", "Inception", 2010)]
                   + omdbRunning[OmdbKey("series", "Lupin", 0)]
    /\ queue # <<>> => active = concurrency

\* the getAwards call numbered n has its task in the queue
Waits(n) == \E place \in DOMAIN queue : queue[place].call = n

\* C27: under every interleaving of getAwards calls and of responses, good or
\* bad, the active requests never exceed the concurrency of 8, the counter
\* never goes below 0 and the queue holds tasks only while 8 requests are
\* active; and when every request in flight ends at some time, a task that
\* waits in the queue is taken out of it, that is started, at some time.
C27_RequestQueue ==
    /\ []QueueBounds
    /\ \A n \in 1..MaxCalls : Waits(n) ~> ~Waits(n)

\* eight requests are in flight and a ninth task waits
C27_Witness ==
    /\ active = concurrency
    /\ Len(queue) >= 1

(***************************************************************************)
(* The lookup caches (SpecLookup).                                         *)
(***************************************************************************)
\* the tasks for a key that wait in the queue of the OMDb client
QueuedFor(key) == Cardinality({place \in DOMAIN queue : queue[place].key = key})

\* a step that is a call of getAwards or of a search
Lookup == lookupCalls' # lookupCalls

\* C28 as claimed: over the whole life of the process at most one HTTP request
\* is made per key by getAwards, and at most one by the searches.
C28_OneRequestPerKey ==
    \A key \in OmdbKeys : omdbFetches[key] <= 1 /\ tmdbFetches[key] <= 1

\* C28 amended: an entry of a cache is never removed, and a call for a key
\* that is in the cache makes no request, now or later: it puts no task into
\* the queue and sends nothing.  A request that ends with a status that is
\* not ok caches null.  (Calls for one key made before the first response is
\* cached each make their own request.)
C28_CachedKeyNoRequest ==
    /\ [][\A key \in OmdbKeys :
             /\ awardsCache[key] # "absent" => awardsCache'[key] # "absent"
             /\ searchCache[key] # "absent" => searchCache'[key] # "absent"]_vars
    /\ [][Lookup =>
             \A key \in OmdbKeys :
                /\ awardsCache[key] # "absent" =>
                      /\ omdbFetches'[key] = omdbFetches[key]
                      /\ QueuedFor(key)' = QueuedFor(key)
                /\ searchCache[key] # "absent" =>
                      tmdbFetches'[key] = tmdbFetches[key]]_vars
    /\ [][\A key \in OmdbKeys :
             /\ RunSettles(key, "notOk") => awardsCache'[key] = "null"
             /\ SearchSettles(key, "notOk") => searchCache'[key] = "null"]_vars

\* the first request for the movie ended with a null in each cache, and of
\* the calls that followed none has made a request
C28_Witness ==
    /\ awardsCache[OmdbKey("movie", "Inception", 2010)] = "null"
    /\ searchCache[OmdbKey("movie", "Inception", 2010)] = "null"
    /\ omdbFetches[OmdbKey("movie", "Inception", 2010)] = 1
    /\ tmdbFetches[OmdbKey("movie", "Inception", 2010)] = 1
    /\ tmdbFetches[OmdbKey("series", "Lupin", 0)] = 0
    /\ lookupCalls >= 4

\* C29: once nothing is pending any more (no playlist waits for the
\* onboarding, no timeout is left), the stored playlists are the playlists
\* the user imported, each stored exactly once, and the channels derived
\* from them are the channels of those playlists, each once.
Settled == ~OnboardingShown /\ timeouts = <<>>

StoredOnce ==
    /\ Range(appPlaylists) = Range(imported)
    /\ Len(appPlaylists) = Len(imported)
    /\ Len(allChannels) = Cardinality(Range(allChannels))

C29_NoDuplicateContent == Settled => StoredOnce

\* the selection went through selectBestQuality: a channel group, or a movie
\* or series group without a variant in the preferred language
RankedByQuality ==
    /\ Selected
    /\ Len(input.variants) >= 2
    /\ \/ input.type = "channel"
       \/ /\ input.type = "movie"
          /\ \A k \in DOMAIN input.variants :
                 input.variants[k].language # args.movies.preferredLanguage
       \/ /\ input.type = "series"
          /\ \A k \in DOMAIN input.variants :
                 input.variants[k].language # args.series.preferredLanguage

Tagged == {k \in DOMAIN input.variants : input.variants[k].quality # undefined}

\* C30: selectBestVariant returns one of the variants of the group, and when
\* the group has two or more variants of which at least one has a detected
\* quality, the quality ranking (whatever the preferred tier, 'auto'
\* included) does not return a variant without a detected quality.
C30_UntaggedLast ==
    Selected =>
        /\ result \in Range(input.variants)
        /\ RankedByQuality /\ Tagged # {} => result.quality # undefined
====
